---- MODULE Spec2Model ----
(***************************************************************************)
(* Model of the visual localisation pipeline of src/modules:               *)
(*   FeatureMatcher.match        (matcher.py)                              *)
(*   PoseEstimator.estimate_pose (pose_estimator.py)                       *)
(*   MapLoader.load_map          (map_loader.py)                           *)
(*   Localiser.__init__ / localise / localise_batch (localiser.py)         *)
(*   MapBuilder.build_map_database and its loaders (map_builder.py)        *)
(*   rename_images_sequentially  (rename_images.py)                        *)
(*   split_train_test            (split_train_test.py)                     *)
(*                                                                         *)
(* Descriptors are modelled with dimensionality D = 1 and non-negative     *)
(* integer components, so the Euclidean distance cv2.BFMatcher computes is *)
(* exactly |x - y|.  Python's None is the string "None".  Indices that the *)
(* code stores (queryIdx, trainIdx, map indices) are 0-based as in the     *)
(* code; TLA+ sequences are 1-based, so s[i + 1] reads element i.          *)
(***************************************************************************)
EXTENDS Integers, Sequences, FiniteSets, TLC

VARIABLES
    pc,               \* position of the modelled call
    \* FeatureMatcher.match
    map_descriptors,  \* match() argument / Localiser.map_descriptors
    descriptors,      \* query descriptors (match() argument, localise() local)
    keypoints,        \* query keypoints: sequence of [pt |-> <<x, y>>]
    ratio_threshold,  \* FeatureMatcher.ratio_threshold as [num, den]
    good_matches,     \* match() local good_matches after the ratio test
    match_ret,        \* what match() returned or raised
    \* PoseEstimator.estimate_pose
    points_3d,        \* estimate_pose() argument
    points_2d,        \* estimate_pose() argument
    solver_calls,     \* number of cv2.solvePnPRansac invocations
    solver_out,       \* what the last solver invocation produced, or None
    est_ret,          \* what estimate_pose() returned: a pose or None
    \* MapLoader.load_map and Localiser.__init__
    npz,              \* the persisted map artifact: two named arrays
    loaded,           \* what load_map() returned, or None
    xyz_world,        \* Localiser.xyz_world
    K,                \* Localiser.K
    estimator_cfg,    \* PoseEstimator.reprojection_error and .confidence
    ctor_kwargs,      \* keyword arguments the caller gave Localiser(...)
    exc,              \* the exception that ended the call, or None
    \* Localiser.localise and localise_batch
    image_paths,      \* localise_batch() argument
    idx,              \* number of paths localise_batch() has finished
    results,          \* localise_batch() local results
    features,         \* localise() locals keypoints, descriptors
    stages,           \* stages the current localise() call has invoked
    loc_ret,          \* what the current localise() call returned
    \* MapBuilder.build_map_database
    colmap,           \* the files on disk: points3D.txt, images.txt, sidecars
    points,           \* what load_map_data() returned
    df,               \* rows of the frame load_image_ids_and_descriptors() built
    images_data,      \* build_map_database() local: image id -> image name
    pt,               \* number of points the loop of lines 91-108 has handled
    save_to,          \* build_map_database's save_to argument
    map_3d_points,    \* build_map_database() local; map_descriptors is shared
    \* concurrent Localiser.localise calls on one Localiser
    threads,          \* per thread: position, image_path, returned value
    calls,            \* the local variables of each running localise() call
    \* rename_images_sequentially and split_train_test
    folder,           \* the files of the folder: [dir, name, content]
    dirs,             \* subdirectories of the folder
    dry_run,          \* argument dry_run
    num_test_images,  \* split_train_test() argument
    random_split,     \* split_train_test() argument
    image_files,      \* local image_files, sorted by name
    rename_pairs,     \* rename local: (old name, new name) pairs
    temp_pairs,       \* rename local: (temporary name, new name) pairs
    test_indices,     \* split local test_indices
    train_files,      \* split local train_files
    test_files,       \* split local test_files
    pos,              \* number of iterations the running loop has finished
    platform          \* os.name: what renaming onto an existing file does

matchVars == <<map_descriptors, descriptors, keypoints, ratio_threshold,
               good_matches, match_ret>>

poseVars == <<points_3d, points_2d, solver_calls, solver_out, est_ret>>

mapVars == <<npz, loaded, xyz_world, K, estimator_cfg, ctor_kwargs, exc>>

batchVars == <<image_paths, idx, results, features, stages, loc_ret>>

buildVars == <<colmap, points, df, images_data, pt, save_to, map_3d_points>>

concVars == <<threads, calls>>

toolVars == <<folder, dirs, dry_run, num_test_images, random_split,
              image_files, rename_pairs, temp_pairs, test_indices,
              train_files, test_files, pos, platform>>

vars == <<pc, matchVars, poseVars, mapVars, batchVars, buildVars, concVars,
          toolVars>>

\* Python's None, as a string where the other values are strings and as a
\* tagged record where they are records.
None == "None"

NoneVal == [kind |-> "None"]

IsNone(v) == v.kind = "None"

(***************************************************************************)
(* Bounds of the model.                                                    *)
(***************************************************************************)
MaxMap == 4       \* map descriptors per map
MaxQuery == 4     \* query descriptors per image
MaxPoints == 6    \* points handed to a direct estimate_pose() call
MaxXyz == 5       \* 3D points of a persisted map
MaxBatch == 2     \* image paths per localise_batch() call
MaxPts == 2       \* point lines of a points3D.txt file
MaxThreads == 2   \* concurrent localise() calls on one Localiser
MaxFiles == 3     \* files of a folder handed to the rename utility
MaxSplitFiles == 30  \* images of a folder handed to the split utility
MaxRandomFiles == 3  \* images of a folder split with --random

\* Descriptor components (D = 1).
DescVals == 0..3

SeqsUpTo(S, n) == UNION {[1..k -> S] : k \in 0..n}

NonDecreasing(s) == \A i \in 1..(Len(s) - 1) : s[i] <= s[i + 1]

NonIncreasing(s) == \A i \in 1..(Len(s) - 1) : s[i] >= s[i + 1]

(***************************************************************************)
(* Program constants.                                                      *)
(***************************************************************************)
MinGoodMatches == 4      \* matcher.py: len(good_matches) < 4
MinFeatures == 4         \* localiser.py: len(descriptors) < 4
MinMatches == 4          \* localiser.py: len(matched_map_indices) < 4
MinPosePoints == 4       \* pose_estimator.py: len(points_3d) < 4

\* ratio_threshold values: the default 0.75 and 0.5, as exact fractions.
RatioChoices == {[num |-> 3, den |-> 4], [num |-> 1, den |-> 2]}

(***************************************************************************)
(* cv2.BFMatcher().knnMatch(map_descriptors, query_descriptors, k=2):      *)
(* for every map descriptor the (at most) two nearest query descriptors,   *)
(* nearest first, as DMatch records.  queryIdx is the map index, trainIdx  *)
(* the query keypoint index.                                               *)
(***************************************************************************)
Dist(x, y) == IF x >= y THEN x - y ELSE y - x

\* The nearest query index to descriptor d among the indices in cand
\* (0-based); ties go to the lower index.
NearestIdx(d, qd, cand) ==
    CHOOSE j \in cand : \A k \in cand :
        \/ Dist(d, qd[j + 1]) < Dist(d, qd[k + 1])
        \/ (Dist(d, qd[j + 1]) = Dist(d, qd[k + 1]) /\ j <= k)

DMatch(i, j, mapd, qd) ==
    [queryIdx |-> i, trainIdx |-> j, distance |-> Dist(mapd[i + 1], qd[j + 1])]

\* One row per map descriptor, of min(2, len(query_descriptors)) neighbours.
KnnRow(i, mapd, qd) ==
    IF Len(qd) = 0
    THEN <<>>
    ELSE LET all == 0..(Len(qd) - 1)
             j1  == NearestIdx(mapd[i + 1], qd, all)
         IN  IF Len(qd) = 1
             THEN <<DMatch(i, j1, mapd, qd)>>
             ELSE <<DMatch(i, j1, mapd, qd),
                    DMatch(i, NearestIdx(mapd[i + 1], qd, all \ {j1}),
                           mapd, qd)>>

RECURSIVE KnnRows(_, _, _)
KnnRows(n, mapd, qd) ==
    IF n = 0
    THEN <<>>
    ELSE Append(KnnRows(n - 1, mapd, qd), KnnRow(n - 1, mapd, qd))

KnnMatch(mapd, qd) == KnnRows(Len(mapd), mapd, qd)

(***************************************************************************)
(* FeatureMatcher.match, lines 37-41: the ratio test.                      *)
(***************************************************************************)
RatioTest_Mut(m, n, ratio) ==
    m.distance * ratio.den <= ratio.num * n.distance

\* m.distance < self.ratio_threshold * n.distance
RatioTest(m, n, ratio) ==
    m.distance * ratio.den < ratio.num * n.distance

RECURSIVE GoodUpTo_Mut(_, _, _)
GoodUpTo_Mut(n, matches, ratio) ==
    IF n = 0
    THEN <<>>
    ELSE IF RatioTest(matches[n][1], matches[n][2], ratio)
         THEN GoodUpTo_Mut(n - 1, matches, ratio)
                  \o <<matches[n][1], matches[n][2]>>
         ELSE GoodUpTo_Mut(n - 1, matches, ratio)

RECURSIVE GoodUpTo(_, _, _)
GoodUpTo(n, matches, ratio) ==
    IF n = 0
    THEN <<>>
    ELSE IF RatioTest(matches[n][1], matches[n][2], ratio)
         THEN Append(GoodUpTo(n - 1, matches, ratio), matches[n][1])
         ELSE GoodUpTo(n - 1, matches, ratio)

GoodMatches(matches, ratio) == GoodUpTo(Len(matches), matches, ratio)

(***************************************************************************)
(* FeatureMatcher.match, lines 43-44: the early return.                    *)
(***************************************************************************)
TooFewGood(good) == Len(good) < MinGoodMatches

(***************************************************************************)
(* FeatureMatcher.match, lines 46-54: best match per query keypoint.       *)
(* query_to_map is an insertion-ordered dict, modelled as a sequence of    *)
(* [key, map_idx, distance] entries.                                       *)
(***************************************************************************)
KeyPos(d, key) == {p \in DOMAIN d : d[p].key = key}

Replaces_Mut(distance, old) == distance > old

\* distance < query_to_map[query_idx][1]
Replaces(distance, old) == distance < old

DedupStep_Mut(d, match) ==
    LET entry == [key |-> match.trainIdx, map_idx |-> 0,
                  distance |-> match.distance]
    IN  IF KeyPos(d, match.trainIdx) = {}
        THEN Append(d, entry)
        ELSE LET p == CHOOSE q \in KeyPos(d, match.trainIdx) : TRUE
             IN  IF Replaces(match.distance, d[p].distance)
                 THEN [d EXCEPT ![p] = entry]
                 ELSE d

DedupStep(d, match) ==
    LET query_idx == match.trainIdx
        map_idx   == match.queryIdx
        distance  == match.distance
        entry     == [key |-> query_idx, map_idx |-> map_idx,
                      distance |-> distance]
    IN  IF KeyPos(d, query_idx) = {}
        THEN Append(d, entry)
        ELSE LET p == CHOOSE q \in KeyPos(d, query_idx) : TRUE
             IN  IF Replaces(distance, d[p].distance)
                 THEN [d EXCEPT ![p] = entry]
                 ELSE d

RECURSIVE DedupUpTo(_, _)
DedupUpTo(n, good) ==
    IF n = 0
    THEN <<>>
    ELSE DedupStep(DedupUpTo(n - 1, good), good[n])

QueryToMap(good) == DedupUpTo(Len(good), good)

(***************************************************************************)
(* FeatureMatcher.match, lines 56-64: the returned lists.                  *)
(***************************************************************************)
RECURSIVE MapIndicesUpTo(_, _)
MapIndicesUpTo(n, d) ==
    IF n = 0 THEN <<>> ELSE Append(MapIndicesUpTo(n - 1, d), d[n].map_idx)

MatchedMapIndices_Mut(d) == [n \in DOMAIN d |-> d[n].key]

\* matched_map_indices: the map index of every surviving entry
MatchedMapIndices(d) == MapIndicesUpTo(Len(d), d)

RECURSIVE PointsUpTo(_, _, _)
PointsUpTo(n, d, kps) ==
    IF n = 0
    THEN <<>>
    ELSE Append(PointsUpTo(n - 1, d, kps), kps[d[n].key + 1].pt)

Matched2dPoints(d, kps) == PointsUpTo(Len(d), d, kps)

(***************************************************************************)
(* FeatureMatcher.match as a whole.  The result records what the call      *)
(* returned: kind "none" is (None, None), kind "lists" the two lists,      *)
(* kind "raise" an exception ("for m, n in matches" cannot unpack a row    *)
(* of fewer than two neighbours, which knnMatch yields for fewer than two  *)
(* query descriptors).                                                     *)
(***************************************************************************)
MatchLists(good, kps) ==
    LET d == QueryToMap(good)
    IN  [kind |-> "lists", good |-> good,
         indices |-> MatchedMapIndices(d),
         points |-> Matched2dPoints(d, kps)]

MatchOn(matches, kps, ratio) ==
    IF \E r \in DOMAIN matches : Len(matches[r]) # 2
    THEN [kind |-> "raise", good |-> <<>>, indices |-> <<>>, points |-> <<>>]
    ELSE LET good == GoodMatches(matches, ratio)
         IN  IF TooFewGood(good)
             THEN [kind |-> "none", good |-> good, indices |-> <<>>,
                   points |-> <<>>]
             ELSE MatchLists(good, kps)

Match(mapd, qd, kps, ratio) == MatchOn(KnnMatch(mapd, qd), kps, ratio)

(***************************************************************************)
(* PoseEstimator.estimate_pose (pose_estimator.py lines 22-74).            *)
(*                                                                         *)
(* cv2.solvePnPRansac is outside the repository: what it yields for given  *)
(* points is a nondeterministic choice among "no consensus", success with  *)
(* some inlier set, and an error when the two point arrays differ in       *)
(* length.  Rotations are quarter turns about the z axis, so Rodrigues     *)
(* yields integer matrices.                                                *)
(***************************************************************************)
RVecs == {[axis |-> "z", quarter |-> q] : q \in {0, 1}}

\* tvec is a 3x1 column.
TVecs == {<<<<1>>, <<2>>, <<3>>>>}

Cos4(q) == CASE q = 0 -> 1 [] q = 1 -> 0 [] q = 2 -> -1 [] q = 3 -> 0

Sin4(q) == CASE q = 0 -> 0 [] q = 1 -> 1 [] q = 2 -> 0 [] q = 3 -> -1

\* R, _ = cv2.Rodrigues(rvec)
Rodrigues(rvec) ==
    <<<<Cos4(rvec.quarter), -Sin4(rvec.quarter), 0>>,
      <<Sin4(rvec.quarter), Cos4(rvec.quarter), 0>>,
      <<0, 0, 1>>>>

\* t = tvec.flatten()
Flatten(tvec) == <<tvec[1][1], tvec[2][1], tvec[3][1]>>

\* R.T
Transpose(R) ==
    <<<<R[1][1], R[2][1], R[3][1]>>,
      <<R[1][2], R[2][2], R[3][2]>>,
      <<R[1][3], R[2][3], R[3][3]>>>>

Row(M, i, t) == M[i][1] * t[1] + M[i][2] * t[2] + M[i][3] * t[3]

CameraCentre_Mut(R, t) == <<-Row(R, 1, t), -Row(R, 2, t), -Row(R, 3, t)>>

\* C = -R.T @ t
CameraCentre(R, t) ==
    <<-Row(Transpose(R), 1, t), -Row(Transpose(R), 2, t),
      -Row(Transpose(R), 3, t)>>

NoRVec == [axis |-> "z", quarter |-> 0]

NoTVec == <<<<0>>, <<0>>, <<0>>>>

InlierArray(n) == [kind |-> "array", len |-> n]

SolverOutcomes(p3, p2) ==
    IF Len(p3) # Len(p2)
    THEN {[raised |-> TRUE, success |-> FALSE, rvec |-> NoRVec,
           tvec |-> NoTVec, inliers |-> NoneVal]}
    ELSE {[raised |-> FALSE, success |-> FALSE, rvec |-> NoRVec,
           tvec |-> NoTVec, inliers |-> NoneVal]}
         \cup {[raised |-> FALSE, success |-> TRUE, rvec |-> r, tvec |-> t,
                inliers |-> i] :
                   r \in RVecs, t \in TVecs,
                   i \in {NoneVal} \cup {InlierArray(n) : n \in 1..Len(p3)}}

TooFewPoints_Mut(p3, p2) == Len(p3) < MinPosePoints /\ Len(p2) < MinPosePoints

\* len(points_3d) < 4 or len(points_2d) < 4
TooFewPoints(p3, p2) == Len(p3) < MinPosePoints \/ Len(p2) < MinPosePoints

\* not success or inliers is None
NoConsensus(out) == ~out.success \/ IsNone(out.inliers)

PoseOf(out, p3) ==
    [kind |-> "pose",
     position |-> CameraCentre(Rodrigues(out.rvec), Flatten(out.tvec)),
     rotation |-> Rodrigues(out.rvec),
     translation |-> Flatten(out.tvec),
     inliers |-> out.inliers.len,
     total |-> Len(p3)]

NoSolverOut == [kind |-> "None", raised |-> FALSE, success |-> FALSE,
                rvec |-> NoRVec, tvec |-> NoTVec, inliers |-> NoneVal]

SolverOut(o) == [kind |-> "out", raised |-> o.raised, success |-> o.success,
                 rvec |-> o.rvec, tvec |-> o.tvec, inliers |-> o.inliers]

\* Every way one call of estimate_pose can end: whether the solver was
\* invoked, what it produced, and the value returned (ret) or the error
\* raised.
EstimatePose(p3, p2) ==
    IF TooFewPoints(p3, p2)
    THEN {[called |-> FALSE, out |-> NoSolverOut, raised |-> FALSE,
           ret |-> NoneVal]}
    ELSE {[called |-> TRUE, out |-> SolverOut(o), raised |-> o.raised,
           ret |-> IF o.raised \/ NoConsensus(o) THEN NoneVal
                   ELSE PoseOf(o, p3)] :
              o \in SolverOutcomes(p3, p2)}

(***************************************************************************)
(* MapLoader.load_map (map_loader.py lines 11-30).                         *)
(***************************************************************************)
LengthMismatch_Mut(xyz, desc) == FALSE

\* len(xyz_world) != len(descriptors)
LengthMismatch(xyz, desc) == Len(xyz) # Len(desc)

(***************************************************************************)
(* Inputs of the pipeline.                                                 *)
(***************************************************************************)
\* Query keypoints: keypoint i (0-based) sits at a point of its own.
KeypointsFor(n) == [i \in 1..n |-> [pt |-> <<10 * (i - 1), 10 * (i - 1) + 5>>]]

PointsFor(n) == [i \in 1..n |-> KeypointsFor(n)[i].pt]

\* 3D map points: point i (0-based) has coordinates of its own.
XyzFor(n) == [i \in 1..n |-> <<i - 1, 2 * (i - 1), 3 * (i - 1)>>]

\* Descriptor arrays a persisted map may hold.
MapChoices == {<<>>, <<0, 1, 2, 3>>, <<0, 0, 0, 0>>}

\* MapLoader.get_default_intrinsics
DefaultK == <<<<1280, 0, 640>>, <<0, 1280, 480>>, <<0, 0, 1>>>>

DefaultRatio == [num |-> 3, den |-> 4]

\* Keyword arguments the repository's callers give Localiser(...):
\* eg.py (defaults), test_all.py and benchmark.py (which adds min_inliers).
BenchmarkMinInliers == 15

CtorKwargs ==
    {[ratio_threshold |-> DefaultRatio, reprojection_error |-> 8,
      confidence |-> [num |-> 99, den |-> 100],
      min_inliers_given |-> FALSE, min_inliers |-> 0],
     [ratio_threshold |-> [num |-> 7, den |-> 10], reprojection_error |-> 12,
      confidence |-> [num |-> 99, den |-> 100],
      min_inliers_given |-> FALSE, min_inliers |-> 0],
     [ratio_threshold |-> [num |-> 7, den |-> 10], reprojection_error |-> 12,
      confidence |-> [num |-> 99, den |-> 100],
      min_inliers_given |-> TRUE, min_inliers |-> BenchmarkMinInliers]}

NoKwargs == [ratio_threshold |-> DefaultRatio, reprojection_error |-> 0,
             confidence |-> [num |-> 0, den |-> 1],
             min_inliers_given |-> FALSE, min_inliers |-> 0]

\* The image files of the query folder and what FeatureExtractor.extract
\* yields for each: an error for an unreadable file, otherwise the SIFT
\* keypoints and descriptors (None when the image has no keypoint).
ImageFiles == {"missing.jpg", "blank.jpg", "few.jpg", "good.jpg"}

NoDescriptors == [kind |-> "None", rows |-> <<>>]

DescriptorArray(rows) == [kind |-> "array", rows |-> rows]

Extract(path) ==
    CASE path = "missing.jpg" ->
            [raised |-> TRUE, keypoints |-> <<>>, descriptors |-> NoDescriptors]
      [] path = "blank.jpg" ->
            [raised |-> FALSE, keypoints |-> <<>>, descriptors |-> NoDescriptors]
      [] path = "few.jpg" ->
            [raised |-> FALSE, keypoints |-> KeypointsFor(3),
             descriptors |-> DescriptorArray(<<0, 1, 2>>)]
      [] path = "good.jpg" ->
            [raised |-> FALSE, keypoints |-> KeypointsFor(4),
             descriptors |-> DescriptorArray(<<0, 1, 2, 3>>)]

NoFeatures == [raised |-> FALSE, keypoints |-> <<>>, descriptors |-> NoDescriptors]

(***************************************************************************)
(* Idle values of the variables a specification does not use.              *)
(***************************************************************************)
NoMatchRet == [kind |-> "pending", indices |-> <<>>, points |-> <<>>]

NoLocRet == [kind |-> "pending", result |-> NoneVal, error |-> None]

IdleMatch ==
    /\ descriptors = <<>>
    /\ keypoints = <<>>
    /\ good_matches = <<>>
    /\ match_ret = NoMatchRet

IdlePose ==
    /\ points_3d = <<>>
    /\ points_2d = <<>>
    /\ solver_calls = 0
    /\ solver_out = NoSolverOut
    /\ est_ret = NoneVal

IdleMap ==
    /\ npz = NoneVal
    /\ loaded = NoneVal
    /\ xyz_world = <<>>
    /\ K = DefaultK
    /\ estimator_cfg = [reprojection_error |-> 8,
                        confidence |-> [num |-> 99, den |-> 100]]
    /\ ctor_kwargs = NoKwargs
    /\ exc = None

IdleBatch ==
    /\ image_paths = <<>>
    /\ idx = 0
    /\ results = <<>>
    /\ features = NoFeatures
    /\ stages = <<>>
    /\ loc_ret = NoLocRet

IdleBuild ==
    /\ colmap = NoneVal
    /\ points = <<>>
    /\ df = <<>>
    /\ images_data = <<>>
    /\ pt = 0
    /\ save_to = None
    /\ map_3d_points = <<>>

IdleConc ==
    /\ threads = <<>>
    /\ calls = <<>>

IdleTools ==
    /\ folder = {}
    /\ dirs = {}
    /\ dry_run = TRUE
    /\ num_test_images = 0
    /\ random_split = FALSE
    /\ image_files = <<>>
    /\ rename_pairs = <<>>
    /\ temp_pairs = <<>>
    /\ test_indices = {}
    /\ train_files = <<>>
    /\ test_files = <<>>
    /\ pos = 0
    /\ platform = "posix"

(***************************************************************************)
(* Specification of the matcher alone: match() is called once on bounded   *)
(* inputs.  Query descriptors are taken in non-decreasing order: keypoint  *)
(* indices are labels, and match() treats every labelling alike.  Map      *)
(* descriptors are taken in non-decreasing and in non-increasing order, so *)
(* that the loops of match() meet equal and unequal candidates of one      *)
(* query keypoint in both orders.                                          *)
(***************************************************************************)
MatchMaps ==
    {s \in SeqsUpTo(DescVals, MaxMap) : NonDecreasing(s) \/ NonIncreasing(s)}

MatchQueries == {s \in SeqsUpTo(DescVals, MaxQuery) : NonDecreasing(s)}

InitMatch ==
    /\ pc = "match_call"
    /\ map_descriptors \in MatchMaps
    /\ descriptors \in MatchQueries
    /\ keypoints = KeypointsFor(Len(descriptors))
    /\ ratio_threshold \in RatioChoices
    /\ good_matches = <<>>
    /\ match_ret = NoMatchRet
    /\ IdlePose /\ IdleMap /\ IdleBatch /\ IdleBuild /\ IdleConc /\ IdleTools

MatchCall ==
    /\ pc = "match_call"
    /\ \E r \in {Match(map_descriptors, descriptors, keypoints,
                       ratio_threshold)} :
           /\ good_matches' = r.good
           /\ match_ret' = [kind |-> r.kind, indices |-> r.indices,
                            points |-> r.points]
    /\ pc' = "match_done"
    /\ UNCHANGED <<map_descriptors, descriptors, keypoints, ratio_threshold>>
    /\ UNCHANGED <<poseVars, mapVars, batchVars>>
    /\ UNCHANGED <<buildVars, concVars, toolVars>>

NextMatch == MatchCall

SpecMatch == InitMatch /\ [][NextMatch]_vars

(***************************************************************************)
(* Specification of the pose estimator alone: estimate_pose() is called    *)
(* once with point arrays of any lengths up to MaxPoints.                  *)
(***************************************************************************)
InitPose ==
    /\ pc = "pose_call"
    /\ points_3d \in {XyzFor(n) : n \in 0..MaxPoints}
    /\ points_2d \in {PointsFor(n) : n \in 0..MaxPoints}
    /\ solver_calls = 0
    /\ solver_out = NoSolverOut
    /\ est_ret = NoneVal
    /\ map_descriptors = <<>>
    /\ ratio_threshold = DefaultRatio
    /\ IdleMatch /\ IdleMap /\ IdleBatch /\ IdleBuild /\ IdleConc /\ IdleTools

EstimatePoseCall ==
    /\ pc = "pose_call"
    /\ \E e \in EstimatePose(points_3d, points_2d) :
           /\ solver_calls' = solver_calls + (IF e.called THEN 1 ELSE 0)
           /\ solver_out' = e.out
           /\ est_ret' = e.ret
           /\ exc' = IF e.raised THEN "cv2.error" ELSE None
           /\ pc' = IF e.raised THEN "pose_raised" ELSE "pose_done"
    /\ UNCHANGED <<points_3d, points_2d>>
    /\ UNCHANGED <<npz, loaded, xyz_world, K, estimator_cfg, ctor_kwargs>>
    /\ UNCHANGED <<matchVars, batchVars>>
    /\ UNCHANGED <<buildVars, concVars, toolVars>>

NextPose == EstimatePoseCall

SpecPose == InitPose /\ [][NextPose]_vars

(***************************************************************************)
(* Localiser.localise (localiser.py lines 44-88): the decisions.           *)
(***************************************************************************)
\* feature_extractor.py line 29: f"Could not load image: {image_path}"
CouldNotLoadMsg(image_path) == "Could not load image: " \o image_path

\* localiser.py line 60: f"Feature extraction failed: {str(e)}"
ExtractionFailedMsg(image_path) ==
    "Feature extraction failed: " \o CouldNotLoadMsg(image_path)

TooFewFeaturesMsg == "Not enough features detected in query image"

TooFewMatchesMsg == "Not enough feature matches found"

PoseFailedMsg == "Pose estimation failed (RANSAC)"

TooFewFeatures_Mut(desc) == IsNone(desc)

\* descriptors is None or len(descriptors) < 4
TooFewFeatures(desc) == IsNone(desc) \/ Len(desc.rows) < MinFeatures

TooFewMatches_Mut(r) == r.kind = "none"

\* matched_map_indices is None or len(matched_map_indices) < 4
TooFewMatches(r) == r.kind = "none" \/ Len(r.indices) < MinMatches

PoseFailed_Mut(pose) == FALSE

\* pose is None
PoseFailed(pose) == IsNone(pose)

\* self.xyz_world[matched_map_indices] raises IndexError for an index that
\* is not below len(self.xyz_world).
GatherRaises(xyz, indices) == \E p \in DOMAIN indices : indices[p] >= Len(xyz)

RECURSIVE GatherUpTo(_, _, _)
GatherUpTo(n, xyz, indices) ==
    IF n = 0
    THEN <<>>
    ELSE Append(GatherUpTo(n - 1, xyz, indices), xyz[indices[n] + 1])

Gather(xyz, indices) == GatherUpTo(Len(indices), xyz, indices)

Failure(msg) == [kind |-> "returned", result |-> NoneVal, error |-> msg]

Success(pose) == [kind |-> "returned", result |-> pose, error |-> None]

(***************************************************************************)
(* Specification of the Localiser: a persisted map is loaded with          *)
(* MapLoader.load_map or its arrays are handed over as they are, a         *)
(* Localiser is constructed, and localise_batch runs on a list of image    *)
(* paths.  localise advances one stage per step.                           *)
(***************************************************************************)
Init ==
    /\ pc = "start"
    /\ npz \in {[kind |-> "npz", xyz_world |-> XyzFor(n), descriptors |-> d] :
                   n \in 0..MaxXyz, d \in MapChoices}
    /\ loaded = NoneVal
    /\ xyz_world = <<>>
    /\ map_descriptors = <<>>
    /\ ratio_threshold = DefaultRatio
    /\ K = DefaultK
    /\ estimator_cfg = [reprojection_error |-> 8,
                        confidence |-> [num |-> 99, den |-> 100]]
    /\ ctor_kwargs = NoKwargs
    /\ exc = None
    /\ IdleMatch /\ IdlePose /\ IdleBatch /\ IdleBuild /\ IdleConc /\ IdleTools

\* MapLoader.load_map
LoadMap ==
    /\ pc = "start"
    /\ IF LengthMismatch(npz.xyz_world, npz.descriptors)
       THEN /\ exc' = "ValueError"
            /\ loaded' = loaded
            /\ pc' = "load_raised"
       ELSE /\ loaded' = [kind |-> "arrays", xyz_world |-> npz.xyz_world,
                          descriptors |-> npz.descriptors]
            /\ exc' = exc
            /\ pc' = "loaded"
    /\ UNCHANGED <<npz, xyz_world, K, estimator_cfg, ctor_kwargs>>
    /\ UNCHANGED <<matchVars, poseVars, batchVars>>
    /\ UNCHANGED <<buildVars, concVars, toolVars>>

\* Localiser.__init__: the signature has no min_inliers parameter, so a
\* call that gives one ends in TypeError before the body runs.
Construct(xyz, desc, kw) ==
    /\ ctor_kwargs' = kw
    /\ IF kw.min_inliers_given
       THEN /\ exc' = "TypeError"
            /\ pc' = "ctor_raised"
            /\ UNCHANGED <<xyz_world, map_descriptors, K, ratio_threshold,
                           estimator_cfg>>
       ELSE /\ xyz_world' = xyz
            /\ map_descriptors' = desc
            /\ K' = DefaultK
            /\ ratio_threshold' = kw.ratio_threshold
            /\ estimator_cfg' = [reprojection_error |-> kw.reprojection_error,
                                 confidence |-> kw.confidence]
            /\ exc' = exc
            /\ pc' = "ready"
    /\ UNCHANGED <<npz, loaded>>
    /\ UNCHANGED <<descriptors, keypoints, good_matches, match_ret>>
    /\ UNCHANGED <<poseVars, batchVars>>
    /\ UNCHANGED <<buildVars, concVars, toolVars>>

\* Localiser(xyz_world, map_descriptors, K, ...) on what load_map returned.
ConstructFromLoaded ==
    /\ pc = "loaded"
    /\ \E kw \in CtorKwargs : Construct(loaded.xyz_world, loaded.descriptors, kw)

\* Localiser(...) on arrays that did not pass through load_map.
ConstructFromArrays ==
    /\ pc = "start"
    /\ \E kw \in CtorKwargs : Construct(npz.xyz_world, npz.descriptors, kw)

\* localise_batch: results = []
BatchCall ==
    /\ pc = "ready"
    /\ \E paths \in SeqsUpTo(ImageFiles, MaxBatch) :
           /\ image_paths' = paths
           /\ pc' = IF paths = <<>> THEN "batch_done" ELSE "loc_extract"
    /\ idx' = 0
    /\ results' = <<>>
    /\ UNCHANGED <<features, stages, loc_ret>>
    /\ UNCHANGED <<matchVars, poseVars, mapVars>>
    /\ UNCHANGED <<buildVars, concVars, toolVars>>

\* localise lines 56-60: extraction inside try/except.
LocExtract ==
    /\ pc = "loc_extract"
    /\ stages' = <<"extract">>
    /\ \E e \in {Extract(image_paths[idx + 1])} :
           /\ features' = e
           /\ IF e.raised
              THEN /\ loc_ret' = Failure(ExtractionFailedMsg(image_paths[idx + 1]))
                   /\ pc' = "loc_return"
              ELSE /\ loc_ret' = loc_ret
                   /\ pc' = "loc_count"
    /\ UNCHANGED <<image_paths, idx, results>>
    /\ UNCHANGED <<matchVars, poseVars, mapVars>>
    /\ UNCHANGED <<buildVars, concVars, toolVars>>

\* localise lines 62-63: the descriptor-count check.
LocCount ==
    /\ pc = "loc_count"
    /\ stages' = Append(stages, "count")
    /\ IF TooFewFeatures(features.descriptors)
       THEN /\ loc_ret' = Failure(TooFewFeaturesMsg)
            /\ pc' = "loc_return"
       ELSE /\ loc_ret' = loc_ret
            /\ pc' = "loc_match"
    /\ UNCHANGED <<image_paths, idx, results, features>>
    /\ UNCHANGED <<matchVars, poseVars, mapVars>>
    /\ UNCHANGED <<buildVars, concVars, toolVars>>

\* localise lines 65-73: matching.
LocMatch ==
    /\ pc = "loc_match"
    /\ stages' = Append(stages, "match")
    /\ descriptors' = features.descriptors.rows
    /\ keypoints' = features.keypoints
    /\ \E r \in {Match(map_descriptors, features.descriptors.rows,
                       features.keypoints, ratio_threshold)} :
           /\ good_matches' = r.good
           /\ match_ret' = [kind |-> r.kind, indices |-> r.indices,
                            points |-> r.points]
           /\ IF r.kind = "raise"
              THEN /\ exc' = "ValueError"
                   /\ loc_ret' = loc_ret
                   /\ pc' = "raised"
              ELSE /\ exc' = exc
                   /\ IF TooFewMatches(r)
                      THEN /\ loc_ret' = Failure(TooFewMatchesMsg)
                           /\ pc' = "loc_return"
                      ELSE /\ loc_ret' = loc_ret
                           /\ pc' = "loc_gather"
    /\ UNCHANGED <<map_descriptors, ratio_threshold>>
    /\ UNCHANGED <<image_paths, idx, results, features>>
    /\ UNCHANGED <<npz, loaded, xyz_world, K, estimator_cfg, ctor_kwargs>>
    /\ UNCHANGED poseVars
    /\ UNCHANGED <<buildVars, concVars, toolVars>>

\* localise lines 75-76: the 3D points of the matched map indices.
LocGather ==
    /\ pc = "loc_gather"
    /\ stages' = Append(stages, "gather")
    /\ IF GatherRaises(xyz_world, match_ret.indices)
       THEN /\ exc' = "IndexError"
            /\ pc' = "raised"
            /\ UNCHANGED <<points_3d, points_2d>>
       ELSE /\ points_3d' = Gather(xyz_world, match_ret.indices)
            /\ points_2d' = match_ret.points
            /\ exc' = exc
            /\ pc' = "loc_estimate"
    /\ UNCHANGED <<solver_calls, solver_out, est_ret>>
    /\ UNCHANGED <<image_paths, idx, results, features, loc_ret>>
    /\ UNCHANGED <<npz, loaded, xyz_world, K, estimator_cfg, ctor_kwargs>>
    /\ UNCHANGED matchVars
    /\ UNCHANGED <<buildVars, concVars, toolVars>>

\* localise lines 78-88: pose estimation and the return value.
LocEstimate ==
    /\ pc = "loc_estimate"
    /\ stages' = Append(stages, "estimate")
    /\ \E e \in EstimatePose(points_3d, points_2d) :
           /\ solver_calls' = solver_calls + (IF e.called THEN 1 ELSE 0)
           /\ solver_out' = e.out
           /\ est_ret' = e.ret
           /\ IF e.raised
              THEN /\ exc' = "cv2.error"
                   /\ loc_ret' = loc_ret
                   /\ pc' = "raised"
              ELSE /\ exc' = exc
                   /\ loc_ret' = IF PoseFailed(e.ret)
                                 THEN Failure(PoseFailedMsg)
                                 ELSE Success(e.ret)
                   /\ pc' = "loc_return"
    /\ UNCHANGED <<points_3d, points_2d>>
    /\ UNCHANGED <<image_paths, idx, results, features>>
    /\ UNCHANGED <<npz, loaded, xyz_world, K, estimator_cfg, ctor_kwargs>>
    /\ UNCHANGED matchVars
    /\ UNCHANGED <<buildVars, concVars, toolVars>>

\* localise_batch lines 101-104: results.append((result, error)); the
\* locals of the finished localise call are gone.
LocReturn ==
    /\ pc = "loc_return"
    /\ results' = Append(results, [result |-> loc_ret.result,
                                   error |-> loc_ret.error])
    /\ idx' = idx + 1
    /\ pc' = IF idx + 1 = Len(image_paths) THEN "batch_done" ELSE "loc_extract"
    /\ features' = NoFeatures
    /\ stages' = <<>>
    /\ loc_ret' = NoLocRet
    /\ descriptors' = <<>>
    /\ keypoints' = <<>>
    /\ good_matches' = <<>>
    /\ match_ret' = NoMatchRet
    /\ points_3d' = <<>>
    /\ points_2d' = <<>>
    /\ solver_calls' = 0
    /\ solver_out' = NoSolverOut
    /\ est_ret' = NoneVal
    /\ UNCHANGED <<image_paths, map_descriptors, ratio_threshold>>
    /\ UNCHANGED mapVars
    /\ UNCHANGED <<buildVars, concVars, toolVars>>

Next ==
    \/ LoadMap
    \/ ConstructFromLoaded
    \/ ConstructFromArrays
    \/ BatchCall
    \/ LocExtract
    \/ LocCount
    \/ LocMatch
    \/ LocGather
    \/ LocEstimate
    \/ LocReturn

Spec == Init /\ [][Next]_vars

(***************************************************************************)
(* MapBuilder (map_builder.py).  The files of a COLMAP reconstruction.     *)
(* A line of points3D.txt is its whitespace-separated tokens, all numeric: *)
(*   POINT3D_ID X Y Z R G B ERROR (IMAGE_ID POINT2D_IDX)*                  *)
(* A line of images.txt is the number of its tokens with the two tokens    *)
(* the code reads, parts[0] and parts[9].                                  *)
(***************************************************************************)
CommentLine == [comment |-> TRUE, parts |-> <<>>]

BlankLine == [comment |-> FALSE, parts |-> <<>>]

\* The coordinates of the k-th point of the file; every point has its own.
PointXyz(k) == <<k, 2 * k, 3 * k>>

RECURSIVE TrackTokens(_)
TrackTokens(track) ==
    IF Len(track) = 0
    THEN <<>>
    ELSE <<track[1][1], track[1][2]>> \o TrackTokens(Tail(track))

PointLine(k, track) ==
    [comment |-> FALSE,
     parts |-> <<100 + k>> \o PointXyz(k) \o <<128, 128, 128, 1>>
                   \o TrackTokens(track)]

\* Image ids a track may name: 1 and 2 are registered in images.txt, 7 is
\* not.  Keypoint indices: -2, 0 and 1 against tables of two rows and one.
TrackImageIds == {1, 2, 7}

TrackKpIdxs == {-2, 0, 1}

FirstEntries == {<<i, k>> : i \in TrackImageIds, k \in TrackKpIdxs}

\* A later observation that resolves whenever image 1 has its table.
LaterEntry == <<1, 0>>

Tracks ==
    {<<>>} \cup {<<e>> : e \in FirstEntries}
           \cup {<<e, LaterEntry>> : e \in FirstEntries}

RECURSIVE PointLines(_, _)
PointLines(n, tracks) ==
    IF n = 0
    THEN <<CommentLine>>
    ELSE Append(PointLines(n - 1, tracks), PointLine(n, tracks[n]))

PointsFiles ==
    {[exists |-> FALSE, lines |-> <<>>]}
        \cup {[exists |-> TRUE, lines |-> PointLines(Len(ts), ts)] :
                 ts \in SeqsUpTo(Tracks, MaxPts)}

ImageLine(id, name) ==
    [comment |-> FALSE, nparts |-> 10, img_id |-> id, img_name |-> name]

Points2dLine(n) ==
    [comment |-> FALSE, nparts |-> n, img_id |-> 0, img_name |-> ""]

RegistryComment == [comment |-> TRUE, nparts |-> 0, img_id |-> 0, img_name |-> ""]

RegistryLines ==
    <<RegistryComment, ImageLine(1, "a.jpg"), Points2dLine(6),
      ImageLine(2, "b.jpg"), Points2dLine(0)>>

RegistryFiles ==
    {[exists |-> FALSE, lines |-> <<>>],
     [exists |-> TRUE, lines |-> RegistryLines]}

\* sorted(dataset_path.glob("*.jpg"))
DatasetJpgs == <<"a.jpg", "b.jpg">>

\* The descriptor sidecar of an image: one descriptor per line, with a
\* blank line at the end of a.jpg's.
SidecarLines(name) ==
    IF name = "a.jpg"
    THEN <<[blank |-> FALSE, value |-> 10], [blank |-> FALSE, value |-> 11],
           [blank |-> TRUE, value |-> 0]>>
    ELSE <<[blank |-> FALSE, value |-> 20]>>

SidecarSets == SUBSET {"a.jpg", "b.jpg"}

(***************************************************************************)
(* MapBuilder.load_map_data (lines 8-42).                                  *)
(***************************************************************************)
\* for i in range(8, len(parts), 2): if i + 1 < len(parts): ...
RECURSIVE ParseTrack(_, _)
ParseTrack(parts, i) ==
    IF i >= Len(parts)
    THEN <<>>
    ELSE IF i + 1 < Len(parts)
         THEN <<<<parts[i + 1], parts[i + 2]>>>> \o ParseTrack(parts, i + 2)
         ELSE ParseTrack(parts, i + 2)

ParsePoint(parts) ==
    [id |-> parts[1], xyz |-> <<parts[2], parts[3], parts[4]>>,
     track |-> ParseTrack(parts, 8)]

RECURSIVE ParsePointsUpTo(_, _)
ParsePointsUpTo(n, lines) ==
    IF n = 0
    THEN <<>>
    ELSE IF lines[n].comment \/ Len(lines[n].parts) = 0
         THEN ParsePointsUpTo(n - 1, lines)
         ELSE IF Len(lines[n].parts) >= 8
              THEN Append(ParsePointsUpTo(n - 1, lines),
                          ParsePoint(lines[n].parts))
              ELSE ParsePointsUpTo(n - 1, lines)

LoadMapData(file) == ParsePointsUpTo(Len(file.lines), file.lines)

(***************************************************************************)
(* MapBuilder.load_image_ids_and_descriptors (lines 44-69).                *)
(***************************************************************************)
RECURSIVE ParseSidecarUpTo(_, _)
ParseSidecarUpTo(n, lines) ==
    IF n = 0
    THEN <<>>
    ELSE IF lines[n].blank
         THEN ParseSidecarUpTo(n - 1, lines)
         ELSE Append(ParseSidecarUpTo(n - 1, lines), lines[n].value)

RECURSIVE LoadDataUpTo(_, _, _)
LoadDataUpTo(n, jpgs, present) ==
    IF n = 0
    THEN <<>>
    ELSE IF jpgs[n] \notin present
         THEN LoadDataUpTo(n - 1, jpgs, present)
         ELSE Append(LoadDataUpTo(n - 1, jpgs, present),
                     [image |-> jpgs[n],
                      descriptors |->
                          ParseSidecarUpTo(Len(SidecarLines(jpgs[n])),
                                           SidecarLines(jpgs[n]))])

LoadImageIdsAndDescriptors(jpgs, present) ==
    LoadDataUpTo(Len(jpgs), jpgs, present)

(***************************************************************************)
(* MapBuilder.build_map_database (lines 71-120).                           *)
(***************************************************************************)
\* images_data[img_id] = img_name
DictSet(d, k, v) ==
    [x \in DOMAIN d \cup {k} |-> IF x = k THEN v ELSE d[x]]

RECURSIVE ParseRegistryUpTo(_, _)
ParseRegistryUpTo(n, lines) ==
    IF n = 0
    THEN <<>>
    ELSE IF lines[n].comment \/ lines[n].nparts = 0
         THEN ParseRegistryUpTo(n - 1, lines)
         ELSE IF lines[n].nparts = 10
              THEN DictSet(ParseRegistryUpTo(n - 1, lines),
                           lines[n].img_id, lines[n].img_name)
              ELSE ParseRegistryUpTo(n - 1, lines)

LoadRegistry(file) == ParseRegistryUpTo(Len(file.lines), file.lines)

DictGet_Mut(d, k) == IF k \in DOMAIN d THEN d[k] ELSE "a.jpg"

\* images_data.get(first_img_id)
DictGet(d, k) == IF k \in DOMAIN d THEN d[k] ELSE None

\* not img_name
Unresolved(img_name) == img_name = None \/ img_name = ""

\* df['image'] raises KeyError on the frame of an empty list: it has no
\* column at all.
NoImageColumn(data) == Len(data) = 0

RECURSIVE RowsUpTo(_, _, _)
RowsUpTo(n, data, img_name) ==
    IF n = 0
    THEN <<>>
    ELSE IF data[n].image = img_name
         THEN Append(RowsUpTo(n - 1, data, img_name), data[n])
         ELSE RowsUpTo(n - 1, data, img_name)

\* df[df['image'] == img_name]
ImgRow(data, img_name) == RowsUpTo(Len(data), data, img_name)

\* first_kp_idx < len(descriptors)
InBounds(first_kp_idx, table) == first_kp_idx < Len(table)

\* descriptors[first_kp_idx] raises IndexError below -len(descriptors).
ItemRaises(table, k) == k >= Len(table) \/ k < -Len(table)

\* descriptors[first_kp_idx]: a negative index counts from the end.
Item(table, k) ==
    IF k >= 0 THEN table[k + 1] ELSE table[Len(table) + k + 1]

AppendPoint_Mut(out, xyz) == <<xyz>> \o out

\* map_3d_points.append(point['xyz'])
AppendPoint(out, xyz) == Append(out, xyz)

\* What one iteration did: appends says whether line 107 ran.
SkipPoint ==
    [kind |-> "skip", exc |-> None, appends |-> FALSE, xyz |-> <<>>, desc |-> 0]

RaisePoint(e) ==
    [kind |-> "raise", exc |-> e, appends |-> FALSE, xyz |-> <<>>, desc |-> 0]

\* line 108 raises after line 107 has appended the coordinates
RaiseAfterAppend(e, xyz) ==
    [kind |-> "raise", exc |-> e, appends |-> TRUE, xyz |-> xyz, desc |-> 0]

KeepPoint(xyz, desc) ==
    [kind |-> "keep", exc |-> None, appends |-> TRUE, xyz |-> xyz, desc |-> desc]

\* One iteration of the loop of lines 91-108.
PointStep(point, imgs, data) ==
    IF Len(point.track) = 0
    THEN SkipPoint
    ELSE LET first_img_id == point.track[1][1]
             first_kp_idx == point.track[1][2]
             img_name     == DictGet(imgs, first_img_id)
         IN  IF Unresolved(img_name)
             THEN SkipPoint
             ELSE IF NoImageColumn(data)
                  THEN RaisePoint("KeyError")
                  ELSE LET img_row == ImgRow(data, img_name)
                       IN  IF Len(img_row) = 0
                           THEN SkipPoint
                           ELSE LET table == img_row[1].descriptors
                                IN  IF InBounds(first_kp_idx, table)
                                    THEN IF ItemRaises(table, first_kp_idx)
                                         THEN RaiseAfterAppend("IndexError",
                                                                 point.xyz)
                                         ELSE KeepPoint(point.xyz,
                                                  Item(table, first_kp_idx))
                                    ELSE SkipPoint

(***************************************************************************)
(* Specification of the Map Builder: build_map_database runs once on the   *)
(* files of a reconstruction, any of which may be absent.                  *)
(***************************************************************************)
InitBuild ==
    /\ pc = "build_call"
    /\ colmap \in {[kind |-> "files", points3D |-> pf, registry |-> rf,
                    jpgs |-> DatasetJpgs, sidecars |-> sc] :
                      pf \in PointsFiles, rf \in RegistryFiles,
                      sc \in SidecarSets}
    /\ points = <<>>
    /\ df = <<>>
    /\ images_data = <<>>
    /\ pt = 0
    /\ save_to \in {None, "", "colmap_map.npz"}
    /\ map_3d_points = <<>>
    /\ map_descriptors = <<>>
    /\ ratio_threshold = DefaultRatio
    /\ IdleMatch /\ IdlePose /\ IdleMap /\ IdleBatch /\ IdleConc /\ IdleTools

\* points = self.load_map_data(map_files)
BuildLoadMapData ==
    /\ pc = "build_call"
    /\ IF ~colmap.points3D.exists
       THEN /\ exc' = "FileNotFoundError"
            /\ pc' = "build_raised"
            /\ UNCHANGED points
       ELSE /\ points' = LoadMapData(colmap.points3D)
            /\ pc' = "build_descriptors"
            /\ UNCHANGED exc
    /\ UNCHANGED <<colmap, df, images_data, pt, save_to, map_3d_points>>
    /\ UNCHANGED <<npz, loaded, xyz_world, K, estimator_cfg, ctor_kwargs>>
    /\ UNCHANGED <<matchVars, poseVars, batchVars, concVars, toolVars>>

\* df = self.load_image_ids_and_descriptors(dataset_path, descriptors_path)
BuildLoadDescriptors ==
    /\ pc = "build_descriptors"
    /\ df' = LoadImageIdsAndDescriptors(colmap.jpgs, colmap.sidecars)
    /\ pc' = "build_registry"
    /\ UNCHANGED <<colmap, points, images_data, pt, save_to, map_3d_points>>
    /\ UNCHANGED <<matchVars, poseVars, mapVars, batchVars, concVars, toolVars>>

\* with open(map_path / "images.txt", 'r') as f: ...
BuildLoadRegistry ==
    /\ pc = "build_registry"
    /\ IF ~colmap.registry.exists
       THEN /\ exc' = "FileNotFoundError"
            /\ pc' = "build_raised"
            /\ UNCHANGED images_data
       ELSE /\ images_data' = LoadRegistry(colmap.registry)
            /\ pc' = "build_loop"
            /\ UNCHANGED exc
    /\ UNCHANGED <<colmap, points, df, pt, save_to, map_3d_points>>
    /\ UNCHANGED <<npz, loaded, xyz_world, K, estimator_cfg, ctor_kwargs>>
    /\ UNCHANGED <<matchVars, poseVars, batchVars, concVars, toolVars>>

\* for point in points: ... (one iteration)
BuildPoint ==
    /\ pc = "build_loop"
    /\ pt < Len(points)
    /\ \E r \in {PointStep(points[pt + 1], images_data, df)} :
           /\ map_3d_points' = IF r.appends
                               THEN AppendPoint(map_3d_points, r.xyz)
                               ELSE map_3d_points
           /\ map_descriptors' = IF r.kind = "keep"
                                 THEN Append(map_descriptors, r.desc)
                                 ELSE map_descriptors
           /\ exc' = r.exc
           /\ pc' = IF r.kind = "raise" THEN "build_raised" ELSE "build_loop"
    /\ pt' = pt + 1
    /\ UNCHANGED <<colmap, points, df, images_data, save_to>>
    /\ UNCHANGED <<descriptors, keypoints, ratio_threshold, good_matches,
                   match_ret>>
    /\ UNCHANGED <<npz, loaded, xyz_world, K, estimator_cfg, ctor_kwargs>>
    /\ UNCHANGED <<poseVars, batchVars, concVars, toolVars>>

\* if save_to: neither None nor the empty string
Truthy(path) == path # None /\ path # ""

\* MapBuilder.save_map: np.savez_compressed(npz_path, xyz_world=...,
\* descriptors=...) writes the two arrays as given, of any lengths.
SaveMap(npz_path, xyz, descs) ==
    [kind |-> "npz", xyz_world |-> xyz, descriptors |-> descs]

\* lines 110-120: the lists become float32 arrays (the identity on the
\* integer values used here), are saved if save_to is given, and returned.
BuildReturn ==
    /\ pc = "build_loop"
    /\ pt = Len(points)
    /\ npz' = IF Truthy(save_to)
              THEN SaveMap(save_to, map_3d_points, map_descriptors)
              ELSE npz
    /\ pc' = "built"
    /\ UNCHANGED <<loaded, xyz_world, K, estimator_cfg, ctor_kwargs, exc>>
    /\ UNCHANGED <<matchVars, poseVars, batchVars, buildVars>>
    /\ UNCHANGED <<concVars, toolVars>>

\* save_map called on its own by the caller of build_map_database, with
\* the returned arrays or a part of either.
SaveMapCall ==
    /\ pc = "built"
    /\ \E a \in 0..Len(map_3d_points), b \in 0..Len(map_descriptors) :
           npz' = SaveMap("direct.npz", SubSeq(map_3d_points, 1, a),
                          SubSeq(map_descriptors, 1, b))
    /\ pc' = "saved"
    /\ UNCHANGED <<loaded, xyz_world, K, estimator_cfg, ctor_kwargs, exc>>
    /\ UNCHANGED <<matchVars, poseVars, batchVars, buildVars>>
    /\ UNCHANGED <<concVars, toolVars>>

NextBuild ==
    \/ BuildLoadMapData
    \/ BuildLoadDescriptors
    \/ BuildLoadRegistry
    \/ BuildPoint
    \/ BuildReturn
    \/ SaveMapCall

SpecBuild == InitBuild /\ [][NextBuild]_vars

(***************************************************************************)
(* Concurrent localise calls on one Localiser.  Every call has its own     *)
(* local variables (keypoints, descriptors, the matcher's lists, the       *)
(* gathered 3D points); the Localiser's fields are shared.  A step of a    *)
(* thread is one stage of localise.                                        *)
(***************************************************************************)
Threads == 1..MaxThreads

\* Where the local variables of thread t's call live: in its own frame.
Frame_Mut(t) == 1

Frame(t) == t

Raised(e) == [kind |-> "raised", result |-> NoneVal, error |-> e]

\* localise(image_path) run on its own: every value it can return and
\* every error it can raise.
LocaliseAlone(xyz, mapd, ratio, path) ==
    LET f == Extract(path)
    IN  IF f.raised
        THEN {Failure(ExtractionFailedMsg(path))}
        ELSE IF TooFewFeatures(f.descriptors)
        THEN {Failure(TooFewFeaturesMsg)}
        ELSE LET r == Match(mapd, f.descriptors.rows, f.keypoints, ratio)
             IN  IF r.kind = "raise"
                 THEN {Raised("ValueError")}
                 ELSE IF TooFewMatches(r)
                 THEN {Failure(TooFewMatchesMsg)}
                 ELSE IF GatherRaises(xyz, r.indices)
                 THEN {Raised("IndexError")}
                 ELSE {IF e.raised THEN Raised("cv2.error")
                       ELSE IF PoseFailed(e.ret) THEN Failure(PoseFailedMsg)
                       ELSE Success(e.ret) :
                          e \in EstimatePose(Gather(xyz, r.indices), r.points)}

NoLocals == [features |-> NoFeatures, match |-> NoMatchRet,
             points_3d |-> <<>>, points_2d |-> <<>>]

\* The Localisers the calls share: a map of four points, one whose
\* descriptors coincide, and one built from arrays of different lengths.
SharedStores ==
    {[xyz_world |-> XyzFor(4), map_descriptors |-> <<0, 1, 2, 3>>],
     [xyz_world |-> XyzFor(4), map_descriptors |-> <<0, 0, 0, 0>>],
     [xyz_world |-> XyzFor(3), map_descriptors |-> <<0, 1, 2, 3>>]}

InitConc ==
    /\ pc = "concurrent"
    /\ \E st \in SharedStores :
           /\ xyz_world = st.xyz_world
           /\ map_descriptors = st.map_descriptors
    /\ ratio_threshold = DefaultRatio
    /\ K = DefaultK
    /\ estimator_cfg = [reprojection_error |-> 8,
                        confidence |-> [num |-> 99, den |-> 100]]
    /\ npz = NoneVal
    /\ loaded = NoneVal
    /\ ctor_kwargs = NoKwargs
    /\ exc = None
    /\ threads \in [Threads -> {[pc |-> "loc_extract", path |-> p,
                                 ret |-> NoLocRet] : p \in ImageFiles}]
    /\ calls = [t \in Threads |-> NoLocals]
    /\ IdleMatch /\ IdlePose /\ IdleBatch /\ IdleBuild /\ IdleTools

\* Thread t's call ends with the value or error r.
Ends(t, r) == [threads EXCEPT ![t].pc = "done", ![t].ret = r]

Goes(t, to) == [threads EXCEPT ![t].pc = to]

ConcFrame ==
    /\ UNCHANGED <<pc, matchVars, poseVars, mapVars, batchVars, buildVars>>
    /\ UNCHANGED toolVars

\* localise lines 56-60
ConcExtract(t) ==
    /\ threads[t].pc = "loc_extract"
    /\ \E e \in {Extract(threads[t].path)} :
           /\ calls' = [calls EXCEPT ![Frame(t)].features = e]
           /\ threads' = IF e.raised
                         THEN Ends(t, Failure(ExtractionFailedMsg(threads[t].path)))
                         ELSE Goes(t, "loc_count")
    /\ ConcFrame

\* localise lines 62-63
ConcCount(t) ==
    /\ threads[t].pc = "loc_count"
    /\ threads' = IF TooFewFeatures(calls[Frame(t)].features.descriptors)
                  THEN Ends(t, Failure(TooFewFeaturesMsg))
                  ELSE Goes(t, "loc_match")
    /\ UNCHANGED calls
    /\ ConcFrame

\* localise lines 65-73
ConcMatch(t) ==
    /\ threads[t].pc = "loc_match"
    /\ \E r \in {Match(map_descriptors,
                       calls[Frame(t)].features.descriptors.rows,
                       calls[Frame(t)].features.keypoints, ratio_threshold)} :
           /\ calls' = [calls EXCEPT ![Frame(t)].match =
                            [kind |-> r.kind, indices |-> r.indices,
                             points |-> r.points]]
           /\ threads' = IF r.kind = "raise"
                         THEN Ends(t, Raised("ValueError"))
                         ELSE IF TooFewMatches(r)
                         THEN Ends(t, Failure(TooFewMatchesMsg))
                         ELSE Goes(t, "loc_gather")
    /\ ConcFrame

\* localise lines 75-76
ConcGather(t) ==
    /\ threads[t].pc = "loc_gather"
    /\ IF GatherRaises(xyz_world, calls[Frame(t)].match.indices)
       THEN /\ threads' = Ends(t, Raised("IndexError"))
            /\ UNCHANGED calls
       ELSE /\ calls' = [calls EXCEPT
                            ![Frame(t)].points_3d =
                                Gather(xyz_world, calls[Frame(t)].match.indices),
                            ![Frame(t)].points_2d =
                                calls[Frame(t)].match.points]
            /\ threads' = Goes(t, "loc_estimate")
    /\ ConcFrame

\* localise lines 78-88
ConcEstimate(t) ==
    /\ threads[t].pc = "loc_estimate"
    /\ \E e \in EstimatePose(calls[Frame(t)].points_3d,
                             calls[Frame(t)].points_2d) :
           threads' = IF e.raised
                      THEN Ends(t, Raised("cv2.error"))
                      ELSE IF PoseFailed(e.ret)
                      THEN Ends(t, Failure(PoseFailedMsg))
                      ELSE Ends(t, Success(e.ret))
    /\ UNCHANGED calls
    /\ ConcFrame

NextConc ==
    \E t \in Threads :
        \/ ConcExtract(t)
        \/ ConcCount(t)
        \/ ConcMatch(t)
        \/ ConcGather(t)
        \/ ConcEstimate(t)

SpecConc == InitConc /\ [][NextConc]_vars

(***************************************************************************)
(* File names (rename_images.py, split_train_test.py).  A name is the      *)
(* sequence of its character codes, so that sorting by name, suffixes and  *)
(* prefixes are what they are in Python.                                   *)
(***************************************************************************)
TempPrefix == <<95, 116, 101, 109, 112, 95>>      \* "_temp_"

FramePrefix == <<102, 114, 97, 109, 101, 95>>     \* "frame_"

DotJpg == <<46, 106, 112, 103>>                   \* ".jpg"

DotPngUpper == <<46, 80, 78, 71>>                 \* ".PNG"

DotTxt == <<46, 116, 120, 116>>                   \* ".txt"

\* image_extensions: .jpg .jpeg .png .gif .bmp .tiff .webp
ImageExtensions ==
    {<<46, 106, 112, 103>>, <<46, 106, 112, 101, 103>>, <<46, 112, 110, 103>>,
     <<46, 103, 105, 102>>, <<46, 98, 109, 112>>, <<46, 116, 105, 102, 102>>,
     <<46, 119, 101, 98, 112>>}

\* str.lower() on ASCII
Lower(name) ==
    [n \in DOMAIN name |->
        IF name[n] \in 65..90 THEN name[n] + 32 ELSE name[n]]

\* Path.suffix: the last dot and what follows, unless that dot starts or
\* ends the name.
Suffix(name) ==
    LET dots == {n \in DOMAIN name : name[n] = 46}
    IN  IF dots = {}
        THEN <<>>
        ELSE LET last == CHOOSE n \in dots : \A m \in dots : m <= n
             IN  IF last > 1 /\ last < Len(name)
                 THEN SubSeq(name, last, Len(name))
                 ELSE <<>>

\* file.is_file() and file.suffix.lower() in image_extensions
IsImage(file) == file.dir = "" /\ Lower(Suffix(file.name)) \in ImageExtensions

\* a < b for Python strings: by the first differing character, a proper
\* prefix first.
NameLess(a, b) ==
    \/ /\ Len(a) < Len(b)
       /\ \A n \in DOMAIN a : a[n] = b[n]
    \/ \E n \in DOMAIN a \cap DOMAIN b :
           /\ a[n] < b[n]
           /\ \A m \in 1..(n - 1) : a[m] = b[m]

\* image_files.sort(key=lambda x: x.name), as the sequence of the names
RECURSIVE SortNames(_)
SortNames(names) ==
    IF names = {}
    THEN <<>>
    ELSE LET least == CHOOSE a \in names :
                          \A b \in names \ {a} : NameLess(a, b)
         IN  <<least>> \o SortNames(names \ {least})

\* The sorted image files of the folder (lines 32-39 of both scripts).
SortedImages(files) == SortNames({f.name : f \in {g \in files : IsImage(g)}})

(***************************************************************************)
(* rename_images_sequentially, lines 48-61: the target names.              *)
(***************************************************************************)
\* str(n) for n >= 0
RECURSIVE Digits(_)
Digits(n) ==
    IF n < 10 THEN <<48 + n>> ELSE Append(Digits(n \div 10), 48 + (n % 10))

PadWidth_Mut(count) == Len(Digits(count))

\* num_digits = max(4, len(str(len(image_files))))
PadWidth(count) == IF Len(Digits(count)) > 4 THEN Len(Digits(count)) ELSE 4

\* f"{idx:0{num_digits}d}"
ZeroPad(digits, width) ==
    [n \in 1..(IF width > Len(digits) THEN width - Len(digits) ELSE 0) |-> 48]
        \o digits

\* f"frame_{idx:0{num_digits}d}{old_path.suffix}"
NewName(index, width, old_name) ==
    FramePrefix \o ZeroPad(Digits(index), width) \o Suffix(old_name)

RECURSIVE RenamePairsUpTo(_, _)
RenamePairsUpTo(n, files) ==
    IF n = 0
    THEN <<>>
    ELSE Append(RenamePairsUpTo(n - 1, files),
                [old |-> files[n],
                 new |-> NewName(n, PadWidth(Len(files)), files[n])])

RenamePairs(files) == RenamePairsUpTo(Len(files), files)

(***************************************************************************)
(* split_train_test, lines 74-75: step = total_images / num_test_images    *)
(* and int(i * step) in IEEE-754 double precision.  A positive double is   *)
(* its 53 significant bits, most significant first, with the number of     *)
(* those bits that stand before the binary point.                          *)
(***************************************************************************)
RECURSIVE IntBits(_)
IntBits(n) == IF n < 2 THEN <<n>> ELSE Append(IntBits(n \div 2), n % 2)

RECURSIVE BitsValue(_)
BitsValue(bits) ==
    IF Len(bits) = 0
    THEN 0
    ELSE 2 * BitsValue(SubSeq(bits, 1, Len(bits) - 1)) + bits[Len(bits)]

\* The next n bits of r / k after the binary point (r < k), appended to
\* acc, and the remainder left.
RECURSIVE FractionBits(_, _, _, _)
FractionBits(r, k, n, acc) ==
    IF n = 0
    THEN [bits |-> acc, rem |-> r]
    ELSE IF 2 * r >= k
         THEN FractionBits(2 * r - k, k, n - 1, Append(acc, 1))
         ELSE FractionBits(2 * r, k, n - 1, Append(acc, 0))

\* bits + 1, with the carry out of the first bit.
IncrementBits(bits) ==
    LET zeros == {n \in DOMAIN bits : bits[n] = 0}
    IN  IF zeros = {}
        THEN [bits |-> [n \in DOMAIN bits |-> 0], carry |-> 1]
        ELSE LET z == CHOOSE n \in zeros : \A m \in zeros : m <= n
             IN  [bits |-> [n \in DOMAIN bits |->
                               IF n < z THEN bits[n]
                               ELSE IF n = z THEN 1 ELSE 0],
                  carry |-> 0]

\* Round to nearest, ties to even, to 53 significant bits.
RoundDouble(bits, sticky, int_bits) ==
    IF Len(bits) <= 53
    THEN [int_bits |-> int_bits,
          bits |-> bits \o [n \in 1..(53 - Len(bits)) |-> 0]]
    ELSE LET kept == SubSeq(bits, 1, 53)
             more == sticky \/ \E n \in 55..Len(bits) : bits[n] = 1
         IN  IF bits[54] = 1 /\ (more \/ kept[53] = 1)
             THEN LET up == IncrementBits(kept)
                  IN  IF up.carry = 1
                      THEN [int_bits |-> int_bits + 1,
                            bits |-> <<1>> \o SubSeq(up.bits, 1, 52)]
                      ELSE [int_bits |-> int_bits, bits |-> up.bits]
             ELSE [int_bits |-> int_bits, bits |-> kept]

\* total_images / num_test_images for total_images >= num_test_images > 0
TrueDiv(total, k) ==
    LET whole == IntBits(total \div k)
        frac  == FractionBits(total % k, k, 54 - Len(whole), <<>>)
    IN  RoundDouble(whole \o frac.bits, frac.rem # 0, Len(whole))

\* The product of i and the bits, worked from the last bit (position j)
\* to the first, with the carry out.
RECURSIVE MulDown(_, _, _, _, _)
MulDown(i, bits, j, carry, acc) ==
    IF j = 0
    THEN [bits |-> acc, carry |-> carry]
    ELSE MulDown(i, bits, j - 1, (i * bits[j] + carry) \div 2,
                 <<(i * bits[j] + carry) % 2>> \o acc)

\* i * step for an integer i >= 1
MulInt(i, x) ==
    LET p    == MulDown(i, x.bits, Len(x.bits), 0, <<>>)
        head == IF p.carry = 0 THEN <<>> ELSE IntBits(p.carry)
    IN  RoundDouble(head \o p.bits, FALSE, x.int_bits + Len(head))

\* int(x)
Trunc(x) == BitsValue(SubSeq(x.bits, 1, x.int_bits))

MulTrunc_Mut(i, total, k) == (i * total) \div k

\* int(i * step)
MulTrunc(i, total, k) ==
    IF i = 0 THEN 0 ELSE Trunc(MulInt(i, TrueDiv(total, k)))

\* set(int(i * step) for i in range(num_test_images))
EvenlySpaced(total, k) == {MulTrunc(i, total, k) : i \in 0..(k - 1)}

(***************************************************************************)
(* The folders the utilities run on.  The content of a file is the name it *)
(* had at the start.                                                       *)
(***************************************************************************)
File(name) == [dir |-> "", name |-> name, content |-> name]

\* A.jpg, _temp_A.jpg, a.jpg, frame_0001.jpg, frame_0002.jpg, b.PNG and
\* the non-image notes.txt
NotesTxt == <<110, 111, 116, 101, 115>> \o DotTxt

RenameNames ==
    {<<65>> \o DotJpg, TempPrefix \o <<65>> \o DotJpg, <<97>> \o DotJpg,
     FramePrefix \o <<48, 48, 48, 49>> \o DotJpg,
     FramePrefix \o <<48, 48, 48, 50>> \o DotJpg,
     <<98>> \o DotPngUpper, NotesTxt}

RenameFolders ==
    {{File(n) : n \in names} :
        names \in {ns \in SUBSET RenameNames : Cardinality(ns) <= MaxFiles}}

\* 01.jpg, 02.jpg, ... and notes.txt
SplitName(n) == ZeroPad(Digits(n), 2) \o DotJpg

SplitFolder(total) == {File(SplitName(n)) : n \in 1..total} \cup {File(NotesTxt)}

\* "large_set_train" and "large_set_test" as file names
TrainFolderName ==
    <<108, 97, 114, 103, 101, 95, 115, 101, 116, 95, 116, 114, 97, 105, 110>>

TestFolderName ==
    <<108, 97, 114, 103, 101, 95, 115, 101, 116, 95, 116, 101, 115, 116>>

\* What an earlier run or the user may have left in the folder: a file
\* 02.jpg in large_set_train, a file 01.jpg in large_set_test (content
\* "OLD"), or a plain file that has the name of one of the subfolders.
LeftoverSets ==
    {{},
     {[dir |-> "large_set_train", name |-> SplitName(2),
       content |-> <<79, 76, 68>>]},
     {[dir |-> "large_set_test", name |-> SplitName(1),
       content |-> <<79, 76, 68>>]},
     {File(TrainFolderName)},
     {File(TestFolderName)}}

SplitFolders ==
    {SplitFolder(total) \cup left :
        total \in 0..MaxSplitFiles, left \in LeftoverSets}

\* the subfolders that exist in a folder
SubFolders(files) == {f.dir : f \in files} \ {""}

TopNames(files) == {f.name : f \in {g \in files : g.dir = ""}}

\* Path.rename(target): the source must exist; an existing target is
\* replaced on POSIX and is an error on Windows.
RenameFile(files, source, target, os) ==
    IF source \notin TopNames(files)
    THEN [files |-> files, exc |-> "FileNotFoundError"]
    ELSE IF target = source
    THEN [files |-> files, exc |-> None]
    ELSE IF target \in TopNames(files) /\ os = "nt"
    THEN [files |-> files, exc |-> "FileExistsError"]
    ELSE [files |->
              {IF f.dir = "" /\ f.name = source
               THEN [f EXCEPT !.name = target] ELSE f :
                  f \in {g \in files : ~(g.dir = "" /\ g.name = target)}},
          exc |-> None]

\* shutil.move(str(file), str(folder / file.name)): a file of that name
\* already in the subfolder is replaced.
MoveFile(files, name, to) ==
    {IF f.dir = "" /\ f.name = name THEN [f EXCEPT !.dir = to] ELSE f :
        f \in {g \in files : ~(g.dir = to /\ g.name = name)}}

RECURSIVE MoveAll(_, _, _, _)
MoveAll(files, names, n, to) ==
    IF n = 0
    THEN files
    ELSE MoveFile(MoveAll(files, names, n - 1, to), names[n], to)

Previews_Mut(flag) == FALSE

\* if dry_run:
Previews(flag) == flag

\* f"_temp_{old_path.name}"
TempName(old_name) == TempPrefix \o old_name

(***************************************************************************)
(* split_train_test, lines 80-87: the two lists.                           *)
(***************************************************************************)
RECURSIVE PickUpTo(_, _, _, _)
PickUpTo(n, files, indices, in_test) ==
    IF n = 0
    THEN <<>>
    ELSE IF ((n - 1) \in indices) = in_test
         THEN Append(PickUpTo(n - 1, files, indices, in_test), files[n])
         ELSE PickUpTo(n - 1, files, indices, in_test)

TestFiles(files, indices) == PickUpTo(Len(files), files, indices, TRUE)

TrainFiles(files, indices) == PickUpTo(Len(files), files, indices, FALSE)

\* random.sample(range(total_images), num_test_images): some k indices
RandomSamples(total, k) ==
    {ix \in SUBSET (0..(total - 1)) : Cardinality(ix) = k}

TrainFolder == "large_set_train"

TestFolder == "large_set_test"

(***************************************************************************)
(* Specification of the two folder utilities: one of them is called once   *)
(* on a folder.                                                            *)
(***************************************************************************)
ToolFolders == RenameFolders \cup SplitFolders

ImageCount(files) == Cardinality({f \in files : IsImage(f)})

InitTools ==
    /\ folder \in ToolFolders
    /\ dirs = SubFolders(folder)
    /\ dry_run \in BOOLEAN
    /\ \/ /\ pc = "rename_call"
          /\ num_test_images = 0
          /\ random_split = FALSE
          /\ platform \in {"posix", "nt"}
       \/ /\ pc = "split_call"
          /\ num_test_images \in (-1)..(ImageCount(folder) + 1)
          /\ random_split \in
                 IF ImageCount(folder) <= MaxRandomFiles
                 THEN BOOLEAN ELSE {FALSE}
          /\ platform = "posix"
    /\ image_files = <<>>
    /\ rename_pairs = <<>>
    /\ temp_pairs = <<>>
    /\ test_indices = {}
    /\ train_files = <<>>
    /\ test_files = <<>>
    /\ pos = 0
    /\ map_descriptors = <<>>
    /\ ratio_threshold = DefaultRatio
    /\ IdleMatch /\ IdlePose /\ IdleMap /\ IdleBatch /\ IdleBuild /\ IdleConc

ToolFrame ==
    UNCHANGED <<matchVars, poseVars, batchVars, buildVars, concVars,
                npz, loaded, xyz_world, K, estimator_cfg, ctor_kwargs>>

\* rename_images_sequentially lines 22-76: list, sort, name, then preview
\* or start renaming.
RenameScan ==
    /\ pc = "rename_call"
    /\ image_files' = SortedImages(folder)
    /\ rename_pairs' = RenamePairs(SortedImages(folder))
    /\ pc' = IF SortedImages(folder) = <<>> THEN "tool_done"
             ELSE IF Previews(dry_run) THEN "rename_preview"
             ELSE "rename_pass1"
    /\ UNCHANGED <<folder, dirs, dry_run, num_test_images, random_split,
                   temp_pairs, test_indices, train_files, test_files, pos,
                   platform, exc>>
    /\ ToolFrame

\* lines 77-83: the preview is printed.
RenamePreview ==
    /\ pc = "rename_preview"
    /\ pc' = "tool_done"
    /\ UNCHANGED <<toolVars, exc>>
    /\ ToolFrame

\* lines 90-94: one file to its temporary name.
RenamePass1 ==
    /\ pc = "rename_pass1"
    /\ pos < Len(rename_pairs)
    /\ \E r \in {RenameFile(folder, rename_pairs[pos + 1].old,
                            TempName(rename_pairs[pos + 1].old), platform)} :
           /\ folder' = r.files
           /\ exc' = r.exc
           /\ IF r.exc # None
              THEN /\ pc' = "tool_raised"
                   /\ UNCHANGED <<temp_pairs, pos>>
              ELSE /\ temp_pairs' =
                          Append(temp_pairs,
                                 [temp |-> TempName(rename_pairs[pos + 1].old),
                                  new |-> rename_pairs[pos + 1].new])
                   /\ pos' = IF pos + 1 = Len(rename_pairs) THEN 0 ELSE pos + 1
                   /\ pc' = IF pos + 1 = Len(rename_pairs)
                            THEN "rename_pass2" ELSE "rename_pass1"
    /\ UNCHANGED <<dirs, dry_run, num_test_images, random_split, image_files,
                   rename_pairs, test_indices, train_files, test_files,
                   platform>>
    /\ ToolFrame

\* lines 97-99: one temporary file to its final name.
RenamePass2 ==
    /\ pc = "rename_pass2"
    /\ pos < Len(temp_pairs)
    /\ \E r \in {RenameFile(folder, temp_pairs[pos + 1].temp,
                            temp_pairs[pos + 1].new, platform)} :
           /\ folder' = r.files
           /\ exc' = r.exc
           /\ IF r.exc # None
              THEN /\ pc' = "tool_raised"
                   /\ UNCHANGED pos
              ELSE /\ pos' = pos + 1
                   /\ pc' = IF pos + 1 = Len(temp_pairs)
                            THEN "tool_done" ELSE "rename_pass2"
    /\ UNCHANGED <<dirs, dry_run, num_test_images, random_split, image_files,
                   rename_pairs, temp_pairs, test_indices, train_files,
                   test_files, platform>>
    /\ ToolFrame

\* split_train_test lines 27-89: list, sort, check the count, select.
SplitScan ==
    /\ pc = "split_call"
    /\ image_files' = SortedImages(folder)
    /\ \E files \in {SortedImages(folder)} :
         IF files = <<>> \/ num_test_images >= Len(files)
         THEN /\ pc' = "tool_done"
              /\ UNCHANGED <<test_indices, train_files, test_files, exc>>
         ELSE IF random_split /\ num_test_images < 0
         THEN /\ pc' = "tool_raised"
              /\ exc' = "ValueError"
              /\ UNCHANGED <<test_indices, train_files, test_files>>
         ELSE IF ~random_split /\ num_test_images = 0
         THEN /\ pc' = "tool_raised"
              /\ exc' = "ZeroDivisionError"
              /\ UNCHANGED <<test_indices, train_files, test_files>>
         ELSE \E ix \in IF random_split
                        THEN RandomSamples(Len(files), num_test_images)
                        ELSE {EvenlySpaced(Len(files), num_test_images)} :
                  /\ test_indices' = ix
                  /\ train_files' = TrainFiles(files, ix)
                  /\ test_files' = TestFiles(files, ix)
                  /\ pc' = IF Previews(dry_run) THEN "split_preview"
                           ELSE "split_mkdir"
                  /\ UNCHANGED exc
    /\ UNCHANGED <<folder, dirs, dry_run, num_test_images, random_split,
                   rename_pairs, temp_pairs, pos, platform>>
    /\ ToolFrame

\* lines 90-110: the preview is printed.
SplitPreview ==
    /\ pc = "split_preview"
    /\ pc' = "tool_done"
    /\ UNCHANGED <<toolVars, exc>>
    /\ ToolFrame

\* lines 114-115: train_folder.mkdir(exist_ok=True), test_folder.mkdir(...)
\* mkdir raises FileExistsError when a plain file has the name.
SplitMkdir ==
    /\ pc = "split_mkdir"
    /\ IF TrainFolderName \in TopNames(folder)
       THEN /\ dirs' = dirs
            /\ exc' = "FileExistsError"
            /\ pc' = "tool_raised"
       ELSE IF TestFolderName \in TopNames(folder)
       THEN /\ dirs' = dirs \cup {TrainFolder}
            /\ exc' = "FileExistsError"
            /\ pc' = "tool_raised"
       ELSE /\ dirs' = dirs \cup {TrainFolder, TestFolder}
            /\ exc' = exc
            /\ pc' = "split_move_train"
    /\ UNCHANGED <<folder, dry_run, num_test_images, random_split,
                   image_files, rename_pairs, temp_pairs, test_indices,
                   train_files, test_files, pos, platform>>
    /\ ToolFrame

\* lines 122-124: the train files are moved.
SplitMoveTrain ==
    /\ pc = "split_move_train"
    /\ folder' = MoveAll(folder, train_files, Len(train_files), TrainFolder)
    /\ pc' = "split_move_test"
    /\ UNCHANGED <<dirs, dry_run, num_test_images, random_split,
                   image_files, rename_pairs, temp_pairs, test_indices,
                   train_files, test_files, pos, platform, exc>>
    /\ ToolFrame

\* lines 128-130: the test files are moved.
SplitMoveTest ==
    /\ pc = "split_move_test"
    /\ folder' = MoveAll(folder, test_files, Len(test_files), TestFolder)
    /\ pc' = "tool_done"
    /\ UNCHANGED <<dirs, dry_run, num_test_images, random_split,
                   image_files, rename_pairs, temp_pairs, test_indices,
                   train_files, test_files, pos, platform, exc>>
    /\ ToolFrame

NextTools ==
    \/ RenameScan
    \/ RenamePreview
    \/ RenamePass1
    \/ RenamePass2
    \/ SplitScan
    \/ SplitPreview
    \/ SplitMkdir
    \/ SplitMoveTrain
    \/ SplitMoveTest

SpecTools == InitTools /\ [][NextTools]_vars

(***************************************************************************)
(* Properties of FeatureMatcher.match, checked under SpecMatch.            *)
(***************************************************************************)
MapIdxs == 0..(Len(map_descriptors) - 1)

QueryIdxs == 0..(Len(descriptors) - 1)

\* Distance between map descriptor i and query descriptor j (0-based).
D(i, j) == Dist(map_descriptors[i + 1], descriptors[j + 1])

\* j1 is a nearest and j2 a second-nearest query descriptor of map
\* descriptor i.
NearestPair(i, j1, j2) ==
    /\ j1 # j2
    /\ D(i, j1) <= D(i, j2)
    /\ \A k \in QueryIdxs \ {j1, j2} : D(i, k) >= D(i, j2)

\* Positions of good_matches that hold a candidate of map descriptor i.
CandidatesOfMap(i) ==
    {p \in DOMAIN good_matches : good_matches[p].queryIdx = i}

\* Positions of good_matches that hold a candidate for query keypoint q.
CandidatesOfQuery(q) ==
    {p \in DOMAIN good_matches : good_matches[p].trainIdx = q}

\* Positions of the returned lists whose 2D point is query keypoint q's.
OutputsOfQuery(q) ==
    {p \in DOMAIN match_ret.points : match_ret.points[p] = keypoints[q + 1].pt}

\* C1: match returns (None, None) or at least 4 correspondences; it never
\* returns a partial list of fewer than 4.
C1_AllOrNothing ==
    match_ret.kind = "lists" => Len(match_ret.indices) >= 4

\* C2: a map descriptor with nearest and second-nearest query distances
\* a <= b has its nearest neighbour accepted iff a < ratio_threshold * b
\* (equality is rejected), the accepted candidate carries the distance a,
\* and a map descriptor yields at most one accepted candidate.
C2_RatioTestStrict ==
    (pc = "match_done" /\ match_ret.kind # "raise") =>
        \A i \in MapIdxs :
            /\ Cardinality(CandidatesOfMap(i)) <= 1
            /\ \A j1, j2 \in QueryIdxs :
                   NearestPair(i, j1, j2) =>
                       /\ (CandidatesOfMap(i) # {}) <=>
                              (D(i, j1) * ratio_threshold.den
                                   < ratio_threshold.num * D(i, j2))
                       /\ \A p \in CandidatesOfMap(i) :
                              good_matches[p].distance = D(i, j1)

\* C2 witness: the ratio test ran, some map descriptor sits exactly on the
\* boundary a = ratio_threshold * b with a > 0 and is rejected, and another
\* map descriptor is accepted.
C2_Witness ==
    /\ pc = "match_done"
    /\ match_ret.kind # "raise"
    /\ \E i \in MapIdxs : \E j1, j2 \in QueryIdxs :
           /\ NearestPair(i, j1, j2)
           /\ D(i, j1) > 0
           /\ D(i, j1) * ratio_threshold.den = ratio_threshold.num * D(i, j2)
           /\ CandidatesOfMap(i) = {}
    /\ good_matches # <<>>

\* C3: in a returned correspondence list every query keypoint with an
\* accepted candidate contributes exactly one correspondence, a keypoint
\* without one contributes none, and the surviving correspondence is a
\* candidate of minimal distance for that keypoint.
C3_DedupKeepsNearest ==
    match_ret.kind = "lists" =>
        /\ Len(match_ret.indices) = Len(match_ret.points)
        /\ \A q \in QueryIdxs :
               IF CandidatesOfQuery(q) = {}
               THEN OutputsOfQuery(q) = {}
               ELSE /\ Cardinality(OutputsOfQuery(q)) = 1
                    /\ \A p \in OutputsOfQuery(q) :
                           \E c \in CandidatesOfQuery(q) :
                               /\ good_matches[c].queryIdx = match_ret.indices[p]
                               /\ \A c2 \in CandidatesOfQuery(q) :
                                      good_matches[c].distance
                                          <= good_matches[c2].distance

\* C3 witness: lists were returned and some query keypoint had two accepted
\* candidates of different distances.
C3_Witness ==
    /\ match_ret.kind = "lists"
    /\ \E q \in QueryIdxs : \E c1, c2 \in CandidatesOfQuery(q) :
           good_matches[c1].distance < good_matches[c2].distance

(***************************************************************************)
(* Properties of the Localiser, checked under Spec.                        *)
(***************************************************************************)
StageOrder == <<"extract", "count", "match", "gather", "estimate">>

IsPrefix(s, t) == Len(s) <= Len(t) /\ \A i \in 1..Len(s) : s[i] = t[i]

InLocalise ==
    pc \in {"loc_count", "loc_match", "loc_gather", "loc_estimate",
            "loc_return", "raised"}

\* The stage whose failure the returned reason names, as the number of
\* stages that ran up to and including it.
StagesRunFor(error) ==
    CASE error \in {ExtractionFailedMsg(p) : p \in ImageFiles} -> 1
      [] error = TooFewFeaturesMsg -> 2
      [] error = TooFewMatchesMsg -> 3
      [] OTHER -> 5

FewDescriptors ==
    features.descriptors.kind = "None" \/ Len(features.descriptors.rows) < 4

MatchFellShort ==
    match_ret.kind = "none" \/
        (match_ret.kind = "lists" /\ Len(match_ret.indices) < 4)

\* C4: localise runs extraction, the descriptor-count check, matching,
\* 3D-point gathering and pose estimation in this order, each at most once;
\* once a stage fails no later stage runs and the call returns that stage's
\* reason; fewer than 4 descriptors fails at the count check.
C4_StagesShortCircuit ==
    InLocalise =>
        /\ IsPrefix(stages, StageOrder)
        /\ features.raised => stages = SubSeq(StageOrder, 1, 1)
        /\ (~features.raised /\ FewDescriptors /\ pc # "loc_count") =>
               /\ stages = SubSeq(StageOrder, 1, 2)
               /\ pc = "loc_return"
               /\ loc_ret.error = TooFewFeaturesMsg
        /\ MatchFellShort =>
               /\ stages = SubSeq(StageOrder, 1, 3)
               /\ pc = "loc_return"
               /\ loc_ret.error = TooFewMatchesMsg
        /\ pc = "loc_return" =>
               /\ stages = SubSeq(StageOrder, 1, StagesRunFor(loc_ret.error))
               /\ (loc_ret.error = PoseFailedMsg) <=>
                      (Len(stages) = 5 /\ est_ret.kind = "None")

\* C4 witness: a call returned the matcher's reason after exactly three
\* stages, on a partial list the matcher handed back.
C4_Witness ==
    /\ pc = "loc_return"
    /\ loc_ret.error = TooFewMatchesMsg
    /\ match_ret.kind = "lists"
    /\ stages = <<"extract", "count", "match">>

\* C5: localise_batch ends with exactly one (result, error) entry per input
\* path; no failure while processing an image aborts the batch.
C5_BatchNeverAborts ==
    pc \in {"batch_done", "raised"} =>
        /\ pc = "batch_done"
        /\ Len(results) = Len(image_paths)

FailureReasons ==
    {ExtractionFailedMsg(p) : p \in ImageFiles}
        \cup {TooFewFeaturesMsg, TooFewMatchesMsg, PoseFailedMsg}

PoseXorReason(r) ==
    \/ (r.result.kind = "pose" /\ r.error = None)
    \/ (r.result.kind = "None" /\ r.error \in FailureReasons)

\* C6: every return of localise is (pose, None) or (None, reason) with a
\* non-empty reason; never (None, None), never (pose, reason).
C6_PoseXorReason ==
    /\ pc = "loc_return" => PoseXorReason(loc_ret)
    /\ \A i \in DOMAIN results : PoseXorReason(results[i])

\* C6 witness: a batch holds a success and a failure, and a further call
\* is returning a failed pose estimation.
C6_Witness ==
    /\ pc = "loc_return"
    /\ loc_ret.error = PoseFailedMsg
    /\ loc_ret.result.kind = "None"
    /\ \E i \in DOMAIN results : results[i].result.kind = "pose"

\* C7: the Localiser takes min_inliers at construction, and localise
\* returns a pose only if its inlier count is at least that value.
C7_MinInliersGate ==
    /\ ctor_kwargs.min_inliers_given => pc # "ctor_raised"
    /\ (pc = "loc_return" /\ loc_ret.result.kind = "pose") =>
           /\ ctor_kwargs.min_inliers_given
           /\ loc_ret.result.inliers >= ctor_kwargs.min_inliers

HasLocaliser ==
    pc \notin {"start", "loaded", "load_raised", "ctor_raised"}

\* C8: every Localiser instance holds arrays of equal length; construction
\* from arrays of different lengths fails.
C8_MapStoreAligned ==
    HasLocaliser => Len(xyz_world) = Len(map_descriptors)

\* C9: load_map returns the two stored arrays only when they have equal
\* length, and raises, returning nothing, when they differ.
C9_LoadMapChecksLengths ==
    /\ loaded.kind = "arrays" =>
           /\ Len(loaded.xyz_world) = Len(loaded.descriptors)
           /\ loaded.xyz_world = npz.xyz_world
           /\ loaded.descriptors = npz.descriptors
    /\ pc = "loaded" => loaded.kind = "arrays"
    /\ pc = "load_raised" =>
           /\ Len(npz.xyz_world) # Len(npz.descriptors)
           /\ loaded.kind = "None"
           /\ exc = "ValueError"

\* C9 witness: load_map raised on an artifact whose arrays differ in length.
C9_Witness ==
    /\ pc = "load_raised"
    /\ Len(npz.xyz_world) # Len(npz.descriptors)
    /\ Len(npz.descriptors) > 0

(***************************************************************************)
(* Properties of PoseEstimator.estimate_pose, checked under SpecPose.      *)
(***************************************************************************)
PoseFields ==
    {"kind", "position", "rotation", "translation", "inliers", "total"}

\* C10: with fewer than 4 3D points or fewer than 4 2D points estimate_pose
\* returns None without invoking the solver; when the solver reports no
\* consensus it returns None; a returned pose is complete and comes from a
\* successful solve.
C10_NoSolveNoPartialPose ==
    pc \in {"pose_done", "pose_raised"} =>
        /\ (Len(points_3d) < 4 \/ Len(points_2d) < 4) =>
               /\ pc = "pose_done"
               /\ est_ret.kind = "None"
               /\ solver_calls = 0
        /\ (solver_calls = 1 /\
                (~solver_out.success \/ solver_out.inliers.kind = "None")) =>
               est_ret.kind = "None"
        /\ est_ret.kind # "None" =>
               /\ DOMAIN est_ret = PoseFields
               /\ solver_calls = 1
               /\ solver_out.success
               /\ est_ret.inliers = solver_out.inliers.len

\* C10 witness: a call with 4 or more 3D points and fewer than 4 2D points
\* returned None with the solver never invoked.
C10_Witness ==
    /\ pc = "pose_done"
    /\ Len(points_3d) >= 4
    /\ Len(points_2d) < 4
    /\ Len(points_2d) > 0
    /\ est_ret.kind = "None"
    /\ solver_calls = 0

(***************************************************************************)
(* Failure reasons of the pose estimator.                                  *)
(***************************************************************************)
\* What estimate_pose returns when it is handed fewer than four
\* correspondences (no points at all).
InsufficientRet == (CHOOSE e \in EstimatePose(<<>>, <<>>) : TRUE).ret

\* C11: every stage reports its failure as a typed reason and a failure of
\* the pose estimator keeps the estimator's own reason, so the value
\* estimate_pose returns when the solver ran and found no consensus differs
\* from the value it returns for insufficient correspondences.
C11_ReasonsDistinguishable ==
    (pc = "pose_done" /\ solver_calls = 1 /\ NoConsensus(solver_out))
        => est_ret # InsufficientRet

(***************************************************************************)
(* The pose record.                                                        *)
(***************************************************************************)
\* Component i of -transpose(R) * t, written out: column i of R against t.
MinusRtT(R, t, i) == -(R[1][i] * t[1] + R[2][i] * t[2] + R[3][i] * t[3])

\* C12: in every pose estimate_pose returns, position equals
\* -transpose(rotation) * translation of the same result, and total equals
\* the number of correspondences passed in.
C12_PositionFromPose ==
    (pc = "pose_done" /\ est_ret.kind = "pose") =>
        /\ \A i \in 1..3 :
               est_ret.position[i] =
                   MinusRtT(est_ret.rotation, est_ret.translation, i)
        /\ est_ret.total = Len(points_3d)
        /\ est_ret.total = Len(points_2d)

\* A pose came back whose rotation is not symmetric, so that transposing it
\* matters, from a call with more than four correspondences.
C12_Witness ==
    /\ pc = "pose_done"
    /\ est_ret.kind = "pose"
    /\ est_ret.rotation # Transpose(est_ret.rotation)
    /\ est_ret.position = <<-2, 1, -3>>
    /\ est_ret.total = 5

(***************************************************************************)
(* Uniqueness of map indices in the matcher's output.                      *)
(***************************************************************************)
\* C13: in the output of match no map index appears more than once.
C13_MapIndexOnce ==
    match_ret.kind = "lists" =>
        \A p, q \in DOMAIN match_ret.indices :
            match_ret.indices[p] = match_ret.indices[q] => p = q

\* match returned correspondences for two map points, out of a map in which
\* a third descriptor was a candidate too and lost the deduplication.
C13_Witness ==
    /\ match_ret.kind = "lists"
    /\ Len(match_ret.indices) >= 2
    /\ Len(good_matches) > Len(match_ret.indices)

\* The result r of match holds two different query keypoints matched to the
\* same map index.
SharesMapIndex(r) ==
    /\ r.kind = "lists"
    /\ \E p, q \in DOMAIN r.indices :
           /\ r.points[p] # r.points[q]
           /\ r.indices[p] = r.indices[q]

\* C14 (as stated): match does not enforce uniqueness per map index: there
\* is an input for which the returned correspondences contain two different
\* query keypoints matched to the same map index.
\* query keypoints matched to the same map index.  The inputs are all the
\* descriptor arrays within the bounds, in any order, given to the matcher
\* as it is configured.
C14_SomeInputSharesMapIndex ==
    \E mapd \in SeqsUpTo(DescVals, MaxMap), qd \in SeqsUpTo(DescVals, MaxQuery) :
        SharesMapIndex(Match(mapd, qd, KeypointsFor(Len(qd)), ratio_threshold))

\* C14 (amended): match returns a one-to-one pairing: whenever two returned
\* correspondences belong to different query keypoints, their map indices
\* differ as well, and every returned map index won the ratio test exactly
\* once.
C14_NoSharedMapIndex ==
    match_ret.kind = "lists" =>
        /\ ~SharesMapIndex(match_ret)
        /\ \A i \in MapIdxs : Cardinality(CandidatesOfMap(i)) <= 1
        /\ Len(match_ret.points) = Len(match_ret.indices)

\* match returned three or more correspondences, all of different query
\* keypoints.
C14_Witness ==
    /\ match_ret.kind = "lists"
    /\ Len(match_ret.indices) >= 3
    /\ \A p, q \in DOMAIN match_ret.points :
           match_ret.points[p] = match_ret.points[q] => p = q

(***************************************************************************)
(* The Map Builder's output against the files it was built from.           *)
(***************************************************************************)
Built == pc = "built"

BuildEnded == pc \in {"built", "build_raised"}

\* Lines of points3D.txt that describe a point.
InputPointLines ==
    {n \in DOMAIN colmap.points3D.lines :
        /\ ~colmap.points3D.lines[n].comment
        /\ Len(colmap.points3D.lines[n].parts) > 0}

\* Image lines of images.txt, and the ids and names they register.
RegistryEntries ==
    {colmap.registry.lines[n] : n \in
        {m \in DOMAIN colmap.registry.lines :
            /\ ~colmap.registry.lines[m].comment
            /\ colmap.registry.lines[m].nparts = 10}}

RegisteredIds == {l.img_id : l \in RegistryEntries}

NameOfId(id) == (CHOOSE l \in RegistryEntries : l.img_id = id).img_name

\* The image has a descriptor table: it is in the dataset and its sidecar
\* file exists.
HasTable(name) ==
    /\ \E n \in DOMAIN colmap.jpgs : colmap.jpgs[n] = name
    /\ name \in colmap.sidecars

\* The descriptor table of an image: the non-blank lines of its sidecar.
TableOf(name) ==
    LET rows == SelectSeq(SidecarLines(name), LAMBDA l : ~l.blank)
    IN  [n \in DOMAIN rows |-> rows[n].value]

HasTrack(p) == Len(points[p].track) > 0

FirstImageId(p) == points[p].track[1][1]

FirstKpIdx(p) == points[p].track[1][2]

\* The first track entry of point p names a registered image that has a
\* table.
FirstHasTable(p) ==
    /\ FirstImageId(p) \in RegisteredIds
    /\ HasTable(NameOfId(FirstImageId(p)))

FirstTable(p) == TableOf(NameOfId(FirstImageId(p)))

\* The first track entry of point p resolves to a descriptor.
FirstResolves(p) ==
    /\ FirstHasTable(p)
    /\ FirstKpIdx(p) \in 0..(Len(FirstTable(p)) - 1)

\* Point p is in the output, and where.
OutputsOfPoint(p) ==
    {i \in DOMAIN map_3d_points : map_3d_points[i] = points[p].xyz}

Retained(p) == OutputsOfPoint(p) # {}

\* The input point that output position i holds.
SourceOf(i) == CHOOSE p \in DOMAIN points : points[p].xyz = map_3d_points[i]

\* C15: build_map_database excludes every point whose first track entry
\* names an image id absent from the registry, and the number of output
\* points is between 0 and the number of input points.
C15_UnregisteredExcluded ==
    Built =>
        /\ Len(map_3d_points) \in 0..Cardinality(InputPointLines)
        /\ \A p \in DOMAIN points :
               (HasTrack(p) /\ FirstImageId(p) \notin RegisteredIds)
                   => ~Retained(p)

\* A build that kept one point and excluded another whose first track entry
\* names an unregistered image although its second entry resolves.
C15_Witness ==
    /\ Built
    /\ Len(map_3d_points) = 1
    /\ \E p \in DOMAIN points :
           /\ Len(points[p].track) = 2
           /\ FirstImageId(p) \notin RegisteredIds
           /\ points[p].track[2][1] \in RegisteredIds
           /\ HasTable(NameOfId(points[p].track[2][1]))
           /\ ~Retained(p)

\* C16: build_map_database drops every point whose first keypointIndex is
\* not in 0..len(table)-1, negative indices included, and no output
\* descriptor is taken from a table position other than keypointIndex.
C16_OutOfBoundsDropped ==
    Built =>
        \A p \in DOMAIN points :
            (HasTrack(p) /\ FirstHasTable(p)) =>
                /\ FirstKpIdx(p) \notin 0..(Len(FirstTable(p)) - 1)
                       => ~Retained(p)
                /\ \A i \in OutputsOfPoint(p) :
                       /\ FirstKpIdx(p) + 1 \in DOMAIN FirstTable(p)
                       /\ map_descriptors[i] = FirstTable(p)[FirstKpIdx(p) + 1]

\* C17: build_map_database uses only the first track entry: a point whose
\* first entry does not resolve is dropped even when a later entry would
\* resolve, and a point whose first entry resolves takes its descriptor
\* from that entry.
C17_FirstEntryOnly ==
    Built =>
        \A p \in DOMAIN points :
            HasTrack(p) =>
                IF FirstResolves(p)
                THEN /\ Retained(p)
                     /\ \A i \in OutputsOfPoint(p) :
                            map_descriptors[i] =
                                FirstTable(p)[FirstKpIdx(p) + 1]
                ELSE ~Retained(p)

\* C18: the two arrays build_map_database returns have the same length, and
\* for every i xyz_world[i] and descriptors[i] come from the same input
\* point, the retained points being in the order of the points file.
C18_OutputAligned ==
    Built =>
        /\ Len(map_3d_points) = Len(map_descriptors)
        /\ \A i \in DOMAIN map_3d_points :
               /\ \E p \in DOMAIN points : points[p].xyz = map_3d_points[i]
               /\ HasTrack(SourceOf(i))
               /\ FirstHasTable(SourceOf(i))
               /\ map_descriptors[i] =
                      FirstTable(SourceOf(i))
                          [(FirstKpIdx(SourceOf(i))
                                % Len(FirstTable(SourceOf(i)))) + 1]
        /\ \A i, j \in DOMAIN map_3d_points :
               i < j => SourceOf(i) < SourceOf(j)

\* A build that kept two points with different descriptors.
C18_Witness ==
    /\ Built
    /\ Len(map_3d_points) = 2
    /\ map_descriptors[1] # map_descriptors[2]

\* C19: a missing descriptor sidecar is not fatal: whichever sidecars are
\* missing, all of them included, a build whose points file and registry
\* exist and whose first keypoint indices are not negative completes, and
\* drops the points whose first observation is in an image without a table.
C19_MissingSidecarNonFatal ==
    (/\ BuildEnded
     /\ colmap.points3D.exists
     /\ colmap.registry.exists
     /\ \A p \in DOMAIN points : HasTrack(p) => FirstKpIdx(p) >= 0)
        => /\ Built
           /\ \A p \in DOMAIN points :
                  (HasTrack(p) /\ ~FirstHasTable(p)) => ~Retained(p)

\* C20: an absent points file is fatal, and an absent image registry file
\* is not: with the points file present the build completes.
C20_MissingRegistryNonFatal ==
    BuildEnded =>
        IF ~colmap.points3D.exists
        THEN pc = "build_raised"
        ELSE ~colmap.registry.exists => Built

(***************************************************************************)
(* What localise hands to the pose estimator.                              *)
(***************************************************************************)
\* The current localise call has reached the call of estimate_pose.
AtEstimate ==
    /\ stages # <<>>
    /\ \/ pc = "loc_estimate"
       \/ stages[Len(stages)] = "estimate"

\* C25: whenever localise invokes estimate_pose it passes at least 4
\* correspondences, as many 3D points as 2D points, the i-th 3D point being
\* xyz_world[mapIndex_i]; the estimator's fewer-than-4 branch is not taken,
\* so the solver runs in every such call.
C25_EstimatorGetsFourAligned ==
    AtEstimate =>
        /\ Len(points_3d) >= 4
        /\ Len(points_3d) = Len(points_2d)
        /\ Len(points_3d) = Len(match_ret.indices)
        /\ \A i \in DOMAIN points_3d :
               /\ match_ret.indices[i] + 1 \in DOMAIN xyz_world
               /\ points_3d[i] = xyz_world[match_ret.indices[i] + 1]
               /\ points_2d[i] = match_ret.points[i]
        /\ stages[Len(stages)] = "estimate" => solver_calls = 1

\* localise called estimate_pose with the four points of a map that holds
\* five, and the solver ran.
C25_Witness ==
    /\ stages # <<>>
    /\ stages[Len(stages)] = "estimate"
    /\ solver_calls = 1
    /\ Len(points_3d) = 4
    /\ Len(xyz_world) = 5

(***************************************************************************)
(* The structure of the matcher's output.                                  *)
(***************************************************************************)
\* Map descriptor i passes the ratio test against the query descriptors.
PassesRatioTest(i) ==
    \E j1, j2 \in QueryIdxs :
        /\ NearestPair(i, j1, j2)
        /\ D(i, j1) * ratio_threshold.den < ratio_threshold.num * D(i, j2)

\* Query keypoint j is a nearest neighbour of map descriptor i.
IsNearest(i, j) == \A k \in QueryIdxs : D(i, j) <= D(i, k)

\* C26: every successful return of match has two lists of equal length;
\* map index i is a valid index of a map descriptor that passed the ratio
\* test, 2D point i is the coordinate of the query keypoint nearest to that
\* map descriptor, and there are no more correspondences than accepted
\* candidates or query keypoints.
C26_OutputStructure ==
    match_ret.kind = "lists" =>
        /\ Len(match_ret.indices) = Len(match_ret.points)
        /\ \A p \in DOMAIN match_ret.indices :
               /\ match_ret.indices[p] \in MapIdxs
               /\ PassesRatioTest(match_ret.indices[p])
               /\ \E j \in QueryIdxs :
                      /\ match_ret.points[p] = keypoints[j + 1].pt
                      /\ IsNearest(match_ret.indices[p], j)
        /\ Len(match_ret.indices) <= Len(good_matches)
        /\ Len(match_ret.indices) <= Len(keypoints)

\* match returned fewer correspondences than candidates, for a map with
\* more descriptors than the image has keypoints.
C26_Witness ==
    /\ match_ret.kind = "lists"
    /\ Len(match_ret.indices) >= 2
    /\ Len(match_ret.indices) < Len(good_matches)
    /\ Len(map_descriptors) > Len(keypoints)
    /\ \E p \in DOMAIN match_ret.indices : match_ret.indices[p] # p - 1

(***************************************************************************)
(* Concurrent localise calls.                                              *)
(***************************************************************************)
\* Every finished call returned a value, or raised an error, that the same
\* call returns or raises when it runs alone.
ResultsAsAlone ==
    \A t \in DOMAIN threads :
        threads[t].pc = "done" =>
            threads[t].ret \in
                LocaliseAlone(xyz_world, map_descriptors, ratio_threshold,
                              threads[t].path)

\* No step of localise writes a field of the Localiser.
StoreReadOnly ==
    UNCHANGED <<xyz_world, map_descriptors, K, ratio_threshold, estimator_cfg>>

\* C21: localise never modifies the Map Store, the intrinsics or the
\* matcher and estimator configuration, and under any interleaving of
\* concurrent localise calls on one Localiser every call gets a result it
\* would get when run alone.
C21_ConcurrentCallsIndependent ==
    /\ []ResultsAsAlone
    /\ [][StoreReadOnly]_vars

\* Two calls on different images have both finished, one with a pose and
\* one with a failure, after their stages interleaved.
C21_Witness ==
    /\ pc = "concurrent"
    /\ threads[1].pc = "done"
    /\ threads[2].pc = "done"
    /\ threads[1].path = "good.jpg"
    /\ threads[2].path = "few.jpg"
    /\ threads[1].ret.result.kind = "pose"
    /\ threads[2].ret.error = TooFewFeaturesMsg
    /\ calls[1].features # calls[2].features

(***************************************************************************)
(* The folder utilities.                                                   *)
(***************************************************************************)
\* the number of decimal digits of n, by thresholds
DigitCount(n) ==
    IF n < 10 THEN 1
    ELSE IF n < 100 THEN 2
    ELSE IF n < 1000 THEN 3
    ELSE IF n < 10000 THEN 4
    ELSE IF n < 100000 THEN 5
    ELSE 6

WidthFor(n) == IF DigitCount(n) > 4 THEN DigitCount(n) ELSE 4

RECURSIVE DecimalValue(_)
DecimalValue(digits) ==
    IF digits = <<>>
    THEN 0
    ELSE 10 * DecimalValue(SubSeq(digits, 1, Len(digits) - 1))
         + (digits[Len(digits)] - 48)

\* name is frame_<index padded to width><suffix>
IsFrameName(name, index, width, suffix) ==
    /\ Len(name) = 6 + width + Len(suffix)
    /\ SubSeq(name, 1, 6) = <<102, 114, 97, 109, 101, 95>>
    /\ \A d \in 7..(6 + width) : name[d] \in 48..57
    /\ DecimalValue(SubSeq(name, 7, 6 + width)) = index
    /\ SubSeq(name, 7 + width, Len(name)) = suffix

RenameComputed == pc \in {"rename_preview", "rename_pass1"} /\ pos = 0

\* C22: for a folder with N image files the rename utility computes N
\* target names frame_<index><original suffix>, the index zero-padded to
\* width max(4, digits(N)), starting at 1 and assigned in ascending order of
\* the original file names, and the N target names are pairwise distinct.
C22_PreviewNames ==
    /\ RenameComputed =>
          /\ Len(rename_pairs) = ImageCount(folder)
          /\ {rename_pairs[n].old : n \in DOMAIN rename_pairs}
                 = {f.name : f \in {g \in folder : IsImage(g)}}
          /\ \A n \in DOMAIN rename_pairs :
                 IsFrameName(rename_pairs[n].new, n,
                             WidthFor(Len(rename_pairs)),
                             Suffix(rename_pairs[n].old))
          /\ \A n \in DOMAIN rename_pairs : \A m \in DOMAIN rename_pairs :
                 n < m => /\ NameLess(rename_pairs[n].old, rename_pairs[m].old)
                          /\ rename_pairs[n].new # rename_pairs[m].new
    /\ pc = "rename_call" =>
          \A count \in {9, 10, 9999, 10000, 99999, 100000} :
              /\ PadWidth(count) = WidthFor(count)
              /\ IsFrameName(NewName(count, PadWidth(count), <<97>> \o DotJpg),
                             count, WidthFor(count), DotJpg)

C22_Witness ==
    /\ pc = "rename_preview"
    /\ Len(rename_pairs) = 2
    /\ \E n \in DOMAIN rename_pairs :
           Suffix(rename_pairs[n].old) = DotPngUpper
    /\ \E f \in folder : ~IsImage(f)

PreviewOnly ==
    \/ dry_run
    \/ pc = "split_call" /\ num_test_images >= ImageCount(folder)

\* C23: with dry_run=True both utilities leave the folder unchanged (no
\* file renamed or moved, no directory created), and the split utility also
\* changes nothing when the requested test count is at least the number of
\* images.
C23_PreviewLeavesFolder ==
    [][PreviewOnly =>
           /\ UNCHANGED <<folder, dirs>>
           /\ pc' \in {"rename_preview", "split_preview", "tool_done",
                       "tool_raised"}]_vars

C23_Witness ==
    /\ pc = "tool_done"
    /\ dry_run
    /\ Len(rename_pairs) >= 2
    /\ \E n \in DOMAIN rename_pairs : rename_pairs[n].old # rename_pairs[n].new
    /\ dirs = {}

EvenSplitDone ==
    /\ pc \in {"split_preview", "split_mkdir"}
    /\ ~random_split
    /\ num_test_images > 0
    /\ num_test_images < Len(image_files)

\* C24: in evenly-spaced mode, for T sorted image files and 0 < k < T,
\* exactly k files are in the test subset, those at sorted positions
\* floor(i*T/k) for i = 0..k-1, the other T-k files are the train subset,
\* and the two subsets are disjoint and together contain every file.
C24_EvenlySpacedFloor ==
    EvenSplitDone =>
        /\ Len(test_files) = num_test_images
        /\ {test_files[n] : n \in DOMAIN test_files}
               = {image_files[((i * Len(image_files)) \div num_test_images) + 1] :
                      i \in 0..(num_test_images - 1)}
        /\ Len(train_files) = Len(image_files) - num_test_images
        /\ {test_files[n] : n \in DOMAIN test_files}
               \cap {train_files[n] : n \in DOMAIN train_files} = {}
        /\ {test_files[n] : n \in DOMAIN test_files}
               \cup {train_files[n] : n \in DOMAIN train_files}
               = {image_files[n] : n \in DOMAIN image_files}

RenameExecuted == ~dry_run /\ rename_pairs # <<>>

\* C27: in execute mode, for any initial image file names (also names that
\* start with _temp_ or have the form frame_<n>), both passes complete, the
\* number of image files is unchanged, no content is overwritten or lost,
\* and every original file ends under the name the preview assigned to it.
C27_ExecuteKeepsEveryFile ==
    /\ RenameExecuted => pc # "tool_raised"
    /\ RenameExecuted /\ pc = "tool_done" =>
          /\ ImageCount(folder) = Len(rename_pairs)
          /\ \A n \in DOMAIN rename_pairs :
                 \E f \in folder : /\ f.dir = ""
                                   /\ f.name = rename_pairs[n].new
                                   /\ f.content = rename_pairs[n].old
    /\ RenameExecuted =>
          \A n \in DOMAIN rename_pairs :
              \E f \in folder : f.content = rename_pairs[n].old

====
